---- MODULE Spec2Model ----
(***************************************************************************)
(* Model of the options-liquidity skill: the snapshot cache (cache.py),    *)
(* the chain fetcher (fetcher.py) and the chain data model (models.py).    *)
(*                                                                         *)
(* The cache directory is the variable fs: ticker directory -> timestamp   *)
(* subdirectory -> the two files save() writes.  Times are counted in      *)
(* ticks, TicksPerSec ticks to the second, so that a timestamp has a       *)
(* sub-second part which strftime drops and isoformat keeps.  heatmap is    *)
(* the LiquidityHeatmap object of heatmap.py, once one is constructed.     *)
(***************************************************************************)
EXTENDS Integers, Sequences, FiniteSets, TLC

VARIABLES fs, now, auto_cache, writes, last, heatmap

vars == <<fs, now, auto_cache, writes, last, heatmap>>

(***************************************************************************)
(* Bounds of the model.                                                    *)
(***************************************************************************)
TicksPerSec == 2
MaxContracts == 2
MaxWrites == 3

(***************************************************************************)
(* Program constants.                                                      *)
(***************************************************************************)
batch_size == 100
SecondsPerMinute == 60

(***************************************************************************)
(* Time.  A datetime is a number of ticks; an optional value is a sequence *)
(* of length 0 (None) or 1.                                                *)
(***************************************************************************)
None == <<>>
Some(v) == <<v>>

T(sec, sub) == sec * TicksPerSec + sub
Second(ts) == ts \div TicksPerSec
Micro(ts) == ts % TicksPerSec

SampleSeconds == {0, 60}
TimePoints == {T(s, u) : s \in SampleSeconds, u \in {0, 1}}

\* datetime.isoformat(): the fractional part is printed only when non-zero.
Isoformat(ts) == IF Micro(ts) = 0 THEN <<Second(ts)>> ELSE <<Second(ts), Micro(ts)>>

\* datetime.fromisoformat(): a missing fractional part reads as zero.
FromIsoformat(s) == T(s[1], IF Len(s) >= 2 THEN s[2] ELSE 0)

(***************************************************************************)
(* Directory names are strings, modelled as sequences of character codes:  *)
(* 0..9 are the digits, a larger code is a letter, which sorts after them. *)
(***************************************************************************)
IsDigit(ch) == ch \in 0..9

\* timestamp.strftime("%Y-%m-%d-%H-%M-%S"): fixed width, second precision.
Strftime(ts) == <<(Second(ts) \div 10) % 10, Second(ts) % 10>>

\* datetime.strptime(name, "%Y-%m-%d-%H-%M-%S"): None stands for ValueError.
Strptime(name) ==
    IF Len(name) \in {1, 2} /\ \A i \in 1..Len(name) : IsDigit(name[i])
    THEN Some(T(IF Len(name) = 2 THEN name[1] * 10 + name[2] ELSE name[1], 0))
    ELSE None

\* str.upper() on the tickers of the model.
Upper(t) == IF t = "spy" THEN "SPY" ELSE t

Tickers == {"spy", "SPY", "QQQ"}

\* String order of two names (Path.__lt__), used by sorted().
RECURSIVE NameLess(_, _)
NameLess(a, b) ==
    IF a = <<>> THEN b # <<>>
    ELSE IF b = <<>> THEN FALSE
    ELSE IF Head(a) # Head(b) THEN Head(a) < Head(b)
    ELSE NameLess(Tail(a), Tail(b))

\* sorted(names, reverse=True) for a set of distinct names.
RECURSIVE SortedNamesDesc(_)
SortedNamesDesc(S) ==
    IF S = {} THEN <<>>
    ELSE LET m == CHOOSE x \in S : \A y \in S \ {x} : NameLess(y, x)
         IN <<m>> \o SortedNamesDesc(S \ {m})

\* sorted(timestamps, reverse=True) for a list of datetimes (duplicates kept).
RECURSIVE SortedDesc(_)
SortedDesc(s) ==
    IF s = <<>> THEN <<>>
    ELSE LET i == CHOOSE k \in 1..Len(s) : \A j \in 1..Len(s) : s[j] <= s[k]
         IN <<s[i]>> \o SortedDesc(SubSeq(s, 1, i - 1) \o SubSeq(s, i + 1, Len(s)))

(***************************************************************************)
(* models.py: OptionContract and OptionsChainData.                         *)
(***************************************************************************)
OptionContract(symbol, underlying, expiration, strike, otype, oi, vol, bid, ask, lastp, delta, gamma, theta, vega, iv) ==
    [symbol |-> symbol, underlying_symbol |-> underlying,
     expiration_date |-> expiration, strike_price |-> strike,
     option_type |-> otype, open_interest |-> oi, volume |-> vol,
     bid |-> bid, ask |-> ask, last_price |-> lastp,
     delta |-> delta, gamma |-> gamma, theta |-> theta, vega |-> vega,
     implied_volatility |-> iv]

OptionsChainData(symbol, price, ts, contracts) ==
    [underlying_symbol |-> symbol, underlying_price |-> price,
     fetch_timestamp |-> ts, contracts |-> contracts]

SeqToSet(s) == {s[i] : i \in 1..Len(s)}

\* The derived views of OptionsChainData.
Expirations(chain) == {c.expiration_date : c \in SeqToSet(chain.contracts)}
Strikes(chain) == {c.strike_price : c \in SeqToSet(chain.contracts)}
Calls(chain) == SelectSeq(chain.contracts, LAMBDA c : c.option_type = "call")
Puts(chain) == SelectSeq(chain.contracts, LAMBDA c : c.option_type = "put")

(***************************************************************************)
(* cache.py: serialization.  A JSON object is a record; json.dump and      *)
(* json.load carry numbers, strings, null and lists over unchanged.        *)
(***************************************************************************)
SerializeContract(c) ==
    [symbol |-> c.symbol, underlying_symbol |-> c.underlying_symbol,
     expiration_date |-> Isoformat(c.expiration_date),
     strike_price |-> c.strike_price, option_type |-> c.option_type,
     open_interest |-> c.open_interest, volume |-> c.volume,
     bid |-> c.bid, ask |-> c.ask, last_price |-> c.last_price,
     delta |-> c.delta, gamma |-> c.gamma, theta |-> c.theta, vega |-> c.vega,
     implied_volatility |-> c.implied_volatility]

\* data.get(key): None when the key is absent.
Get(data, key) == IF key \in DOMAIN data THEN data[key] ELSE None

\* A deserializer that reads gamma from the delta key.
DeserializeContract_GammaFromDelta(data) ==
    OptionContract(data.symbol, data.underlying_symbol,
                   FromIsoformat(data.expiration_date), data.strike_price,
                   data.option_type, data.open_interest, data.volume,
                   data.bid, data.ask, data.last_price,
                   Get(data, "delta"), Get(data, "delta"), Get(data, "theta"),
                   Get(data, "vega"), Get(data, "implied_volatility"))

DeserializeContract(data) ==
    OptionContract(data.symbol, data.underlying_symbol,
                   FromIsoformat(data.expiration_date), data.strike_price,
                   data.option_type, data.open_interest, data.volume,
                   data.bid, data.ask, data.last_price,
                   Get(data, "delta"), Get(data, "gamma"), Get(data, "theta"),
                   Get(data, "vega"), Get(data, "implied_volatility"))

SerializeChain(chain) ==
    [underlying_symbol |-> chain.underlying_symbol,
     underlying_price |-> chain.underlying_price,
     fetch_timestamp |-> Isoformat(chain.fetch_timestamp),
     contracts |-> [i \in 1..Len(chain.contracts) |->
                        SerializeContract(chain.contracts[i])]]

DeserializeChain(data) ==
    OptionsChainData(data.underlying_symbol, data.underlying_price,
                     FromIsoformat(data.fetch_timestamp),
                     [i \in 1..Len(data.contracts) |->
                          DeserializeContract(data.contracts[i])])

(***************************************************************************)
(* The cache directory.  fs maps a ticker directory to its subdirectories, *)
(* each holding the two files of an entry.  A file is None (it does not    *)
(* exist) or Some of its content; a content that is not valid JSON (an     *)
(* empty or truncated file) has ok = FALSE.                                *)
(***************************************************************************)
JsonFile(data) == Some([ok |-> TRUE, data |-> Some(data)])
CorruptFile == Some([ok |-> FALSE, data |-> None])
EmptyDir == [chain |-> None, meta |-> None]

\* The result of an operation: a value, None, or an exception raised.
Value(v) == [kind |-> "value", val |-> Some(v)]
NoneResult == [kind |-> "none", val |-> None]
Raise(e) == [kind |-> "raise", val |-> Some(e)]

\* A path whose ticker directory keeps the letter case of the argument.
GetCachePath_KeepsCase(ticker, timestamp) == <<ticker, Strftime(timestamp)>>

\* DataCache._get_cache_path: <<ticker directory, subdirectory>>.
GetCachePath(ticker, timestamp) == <<Upper(ticker), Strftime(timestamp)>>

SubDirs(f, t) == IF t \in DOMAIN f THEN f[t] ELSE <<>>

\* cache_path.mkdir(parents=True, exist_ok=True)
Mkdir(f, path) ==
    LET t == path[1]
        n == path[2]
        dir == SubDirs(f, t)
    IN (t :> (IF n \in DOMAIN dir THEN dir ELSE (n :> EmptyDir) @@ dir)) @@ f

\* Replaces one file of the entry at path (the directory exists).
WriteFile(f, path, file, content) ==
    [f EXCEPT ![path[1]][path[2]][file] = content]

Metadata(chain) ==
    [ticker |-> chain.underlying_symbol,
     underlying_price |-> chain.underlying_price,
     fetch_timestamp |-> Isoformat(chain.fetch_timestamp),
     total_contracts |-> Len(chain.contracts),
     expirations_count |-> Cardinality(Expirations(chain)),
     strikes_count |-> Cardinality(Strikes(chain)),
     calls_count |-> Len(Calls(chain)),
     puts_count |-> Len(Puts(chain))]

\* A save that leaves an existing snapshot file as it is.
SaveFs_KeepsExisting(f, chain) ==
    LET path == GetCachePath(chain.underlying_symbol, chain.fetch_timestamp)
        f1 == Mkdir(f, path)
        f2 == IF f1[path[1]][path[2]].chain # None THEN f1
              ELSE WriteFile(f1, path, "chain", JsonFile(SerializeChain(chain)))
    IN WriteFile(f2, path, "meta", JsonFile(Metadata(chain)))

\* DataCache.save: the directory after the call.
SaveFs(f, chain) ==
    LET path == GetCachePath(chain.underlying_symbol, chain.fetch_timestamp)
        f1 == Mkdir(f, path)
        f2 == WriteFile(f1, path, "chain", JsonFile(SerializeChain(chain)))
    IN WriteFile(f2, path, "meta", JsonFile(Metadata(chain)))

\* DataCache.save cut short (the process dies inside it): after mkdir, or after
\* open(data_file, "w") has truncated the snapshot file and before json.dump.
SaveInterruptedFs(f, ticker, timestamp, stage) ==
    LET path == GetCachePath(ticker, timestamp)
        f1 == Mkdir(f, path)
    IN IF stage = "mkdir" THEN f1 ELSE WriteFile(f1, path, "chain", CorruptFile)

\* json.load of an existing snapshot file, then _deserialize_chain.
LoadFile(file) ==
    IF file[1].ok THEN Value(DeserializeChain(file[1].data[1]))
    ELSE Raise("JSONDecodeError")

\* DataCache.load
LoadResult(f, ticker, timestamp) ==
    LET path == GetCachePath(ticker, timestamp)
        dir == SubDirs(f, path[1])
    IN IF path[2] \notin DOMAIN dir \/ dir[path[2]].chain = None
       THEN NoneResult
       ELSE LoadFile(dir[path[2]].chain)

\* The loop of load_latest over the sorted subdirectories.
RECURSIVE LoadFirst(_, _)
LoadFirst(dir, cache_dirs) ==
    IF cache_dirs = <<>> THEN NoneResult
    ELSE IF dir[Head(cache_dirs)].chain # None
         THEN LoadFile(dir[Head(cache_dirs)].chain)
         ELSE LoadFirst(dir, Tail(cache_dirs))

\* DataCache.load_latest
LoadLatestResult(f, ticker) ==
    LET t == Upper(ticker)
    IN IF t \notin DOMAIN f THEN NoneResult
       ELSE LoadFirst(f[t], SortedNamesDesc(DOMAIN f[t]))

\* The loop of list_cached: the names that parse, as datetimes.
RECURSIVE ParsedNames(_)
ParsedNames(names) ==
    IF names = <<>> THEN <<>>
    ELSE LET ts == Strptime(Head(names))
         IN (IF ts = None THEN <<>> ELSE <<ts[1]>>) \o ParsedNames(Tail(names))

RECURSIVE Reverse(_)
Reverse(s) == IF s = <<>> THEN <<>> ELSE Reverse(Tail(s)) \o <<Head(s)>>

\* A list_cached that sorts without reverse=True.
ListCachedResult_Ascending(f, ticker) ==
    LET t == Upper(ticker)
    IN IF t \notin DOMAIN f THEN <<>>
       ELSE Reverse(SortedDesc(ParsedNames(SortedNamesDesc(DOMAIN f[t]))))

\* DataCache.list_cached
ListCachedResult(f, ticker) ==
    LET t == Upper(ticker)
    IN IF t \notin DOMAIN f THEN <<>>
       ELSE SortedDesc(ParsedNames(SortedNamesDesc(DOMAIN f[t])))

\* A decision that also clears the entry at the bound itself.
ShouldClear_Inclusive(name, older_than) ==
    IF older_than = None THEN TRUE
    ELSE LET ts == Strptime(name)
         IN IF ts = None THEN FALSE ELSE ts[1] <= older_than[1]

\* The decision of clear_cache for one subdirectory.
ShouldClear(name, older_than) ==
    IF older_than = None THEN TRUE
    ELSE LET ts == Strptime(name)
         IN IF ts = None THEN FALSE ELSE ts[1] < older_than[1]

\* One ticker directory after the inner loop of clear_cache.
ClearDir(dir, older_than) ==
    [n \in {m \in DOMAIN dir : ~ShouldClear(m, older_than)} |-> dir[n]]

Cleared(dir, older_than) ==
    Cardinality({m \in DOMAIN dir : ShouldClear(m, older_than)})

RECURSIVE SumOver(_, _)
SumOver(S, g) ==
    IF S = {} THEN 0
    ELSE LET x == CHOOSE y \in S : TRUE IN g[x] + SumOver(S \ {x}, g)

\* A clear_cache that walks every ticker directory whatever the ticker given.
ClearCacheResult_IgnoresTicker(f, ticker, older_than) ==
    [fs |-> [t \in DOMAIN f |-> ClearDir(f[t], older_than)],
     cleared |-> SumOver(DOMAIN f, [t \in DOMAIN f |-> Cleared(f[t], older_than)])]

\* DataCache.clear_cache: the directory after the call and the count returned.
ClearCacheResult(f, ticker, older_than) ==
    IF ticker # None
    THEN LET t == Upper(ticker[1])
         IN IF t \notin DOMAIN f THEN [fs |-> f, cleared |-> 0]
            ELSE [fs |-> [f EXCEPT ![t] = ClearDir(f[t], older_than)],
                  cleared |-> Cleared(f[t], older_than)]
    ELSE [fs |-> [t \in DOMAIN f |-> ClearDir(f[t], older_than)],
          cleared |-> SumOver(DOMAIN f, [t \in DOMAIN f |-> Cleared(f[t], older_than)])]

(***************************************************************************)
(* The inputs of the model.                                                *)
(***************************************************************************)
Date(day) == T(day * 86400, 0)

Occ(root, date_part, type_char, strike_part) ==
    [root |-> root, date_part |-> date_part, type_char |-> type_char,
     strike_part |-> strike_part]

\* A call with every greek present, and a put with none.
SampleCall(u) ==
    OptionContract(Occ(Upper(u), 10, "C", 100000), u, Date(10), 100, "call",
                   50, 7, 1, 2, 1, Some(5), Some(1), Some(-1), Some(2), Some(30))
SamplePut(u) ==
    OptionContract(Occ(Upper(u), 20, "P", 105000), u, Date(20), 105, "put",
                   150, 0, 3, 4, 3, None, None, None, None, None)

\* The snapshots handed to save: both letter cases of one ticker at every time
\* point, empty and not, and a second ticker.
SampleChains ==
    {OptionsChainData(t, 100, ts, cs) :
        t \in {"spy"}, ts \in TimePoints, cs \in {<<>>}}
    \cup {OptionsChainData("SPY", 100, ts, <<SampleCall("SPY"), SamplePut("SPY")>>) :
            ts \in TimePoints}
    \cup {OptionsChainData("QQQ", 100, ts, <<SampleCall("QQQ")>>) :
            ts \in {T(0, 1), T(60, 0)}}

\* The names of subdirectories that are not the cache's own: two letters.
ForeignNames == {<<10, 10>>}
\* The arguments of clear_cache: no ticker, a lower-case one, another one; no
\* bound, or a bound with or without a sub-second part.
OptionalTickers == {None, Some("spy"), Some("QQQ")}
OptionalTimes == {None, Some(T(0, 1)), Some(T(60, 0)), Some(T(60, 1))}

(***************************************************************************)
(* The operations of the cache, as actions.  last records the operation    *)
(* that ran and what it returned.  writes counts the operations that add   *)
(* to the directory.                                                       *)
(***************************************************************************)
Save(chain) ==
    /\ writes < MaxWrites
    /\ fs' = SaveFs(fs, chain)
    /\ writes' = writes + 1
    /\ last' = [op |-> "save", chain |-> chain,
                ret |-> GetCachePath(chain.underlying_symbol, chain.fetch_timestamp),
                \* the snapshot file of the entry as it was at the call
                before |-> LET path == GetCachePath(chain.underlying_symbol,
                                                    chain.fetch_timestamp)
                           IN IF path[2] \in DOMAIN SubDirs(fs, path[1])
                              THEN fs[path[1]][path[2]].chain ELSE None]
    /\ UNCHANGED <<now, auto_cache, heatmap>>

SaveInterrupted(ticker, timestamp, stage) ==
    /\ writes < MaxWrites
    /\ fs' = SaveInterruptedFs(fs, ticker, timestamp, stage)
    /\ writes' = writes + 1
    /\ last' = [op |-> "save_interrupted", ticker |-> ticker,
                timestamp |-> timestamp, stage |-> stage]
    /\ UNCHANGED <<now, auto_cache, heatmap>>

\* A subdirectory that is not the cache's own appears in a ticker directory.
ForeignDir(t, name) ==
    /\ writes < MaxWrites
    /\ name \notin DOMAIN SubDirs(fs, t)
    /\ fs' = Mkdir(fs, <<t, name>>)
    /\ writes' = writes + 1
    /\ last' = [op |-> "foreign_dir", ticker |-> t, name |-> name]
    /\ UNCHANGED <<now, auto_cache, heatmap>>

Load(ticker, timestamp) ==
    /\ last' = [op |-> "load", ticker |-> ticker, timestamp |-> timestamp,
                ret |-> LoadResult(fs, ticker, timestamp),
                \* the snapshot saved by the operation just before, if it was a save
                after_save |-> IF last.op = "save" THEN Some(last.chain) ELSE None]
    /\ UNCHANGED <<fs, now, auto_cache, writes, heatmap>>

LoadLatest(ticker) ==
    /\ last' = [op |-> "load_latest", ticker |-> ticker,
                ret |-> LoadLatestResult(fs, ticker)]
    /\ UNCHANGED <<fs, now, auto_cache, writes, heatmap>>

ListCached(ticker) ==
    /\ last' = [op |-> "list_cached", ticker |-> ticker,
                ret |-> ListCachedResult(fs, ticker)]
    /\ UNCHANGED <<fs, now, auto_cache, writes, heatmap>>

ClearCache(ticker, older_than) ==
    LET r == ClearCacheResult(fs, ticker, older_than)
    IN /\ fs' = r.fs
       /\ last' = [op |-> "clear_cache", ticker |-> ticker,
                   older_than |-> older_than, ret |-> r.cleared]
       /\ UNCHANGED <<now, auto_cache, writes, heatmap>>

\* DataCache.__init__: an empty cache directory.
InitCache ==
    /\ fs = <<>>
    /\ now = T(0, 0)
    /\ auto_cache = TRUE
    /\ writes = 0
    /\ heatmap = None
    /\ last = [op |-> "init"]

NextCache ==
    \/ \E chain \in SampleChains : Save(chain)
    \/ \E ts \in {T(0, 0), T(60, 0)}, stage \in {"mkdir", "open"} :
          SaveInterrupted("SPY", ts, stage)
    \/ \E t \in {Upper(u) : u \in Tickers}, name \in ForeignNames : ForeignDir(t, name)
    \/ \E t \in Tickers, ts \in TimePoints : Load(t, ts)
    \/ \E t \in Tickers : LoadLatest(t)
    \/ \E t \in Tickers : ListCached(t)
    \/ \E t \in OptionalTickers, older \in OptionalTimes : ClearCache(t, older)

SpecCache == InitCache /\ [][NextCache]_vars

(***************************************************************************)
(* Numbers.  A floating-point value (a strike bound, a moneyness, a        *)
(* percent value) is an exact fraction <<numerator, denominator>> in       *)
(* lowest terms with a positive denominator.                               *)
(***************************************************************************)
Abs(n) == IF n < 0 THEN -n ELSE n

RECURSIVE Gcd(_, _)
Gcd(a, b) == IF b = 0 THEN a ELSE Gcd(b, a % b)

Frac(n, d) ==
    LET g == Gcd(Abs(n), Abs(d))
        sgn == IF d < 0 THEN -1 ELSE 1
    IN <<sgn * (n \div g), sgn * (d \div g)>>

Num(n) == <<n, 1>>
FracAdd(a, b) == Frac(a[1] * b[2] + b[1] * a[2], a[2] * b[2])
FracMul(a, b) == Frac(a[1] * b[1], a[2] * b[2])
FracDiv(a, b) == Frac(a[1] * b[2], a[2] * b[1])
FracLe(a, b) == a[1] * b[2] <= b[1] * a[2]
FracLt(a, b) == a[1] * b[2] < b[1] * a[2]

\* sum of a sequence of fractions, left to right
RECURSIVE FracSum(_)
FracSum(s) == IF s = <<>> THEN Num(0) ELSE FracAdd(Head(s), FracSum(Tail(s)))

\* sum of a sequence of integers
RECURSIVE Sum(_)
Sum(s) == IF s = <<>> THEN 0 ELSE Head(s) + Sum(Tail(s))

\* The elements of a set of fractions (or of integers) in ascending order.
RECURSIVE FracSortAsc(_)
FracSortAsc(S) ==
    IF S = {} THEN <<>>
    ELSE LET m == CHOOSE x \in S : \A y \in S : FracLe(x, y)
         IN <<m>> \o FracSortAsc(S \ {m})

RECURSIVE IntSortAsc(_)
IntSortAsc(S) ==
    IF S = {} THEN <<>>
    ELSE LET m == CHOOSE x \in S : \A y \in S : x <= y
         IN <<m>> \o IntSortAsc(S \ {m})

\* The calendar day of a datetime: datetime.date().
DateOf(ts) == Second(ts) \div 86400

(***************************************************************************)
(* fetcher.py.  The brokerage is the environment: the quote of the         *)
(* underlying, the list of option symbols, and, per batch of symbols, a    *)
(* failure or the snapshots of the batch.                                  *)
(***************************************************************************)
Min(a, b) == IF a < b THEN a ELSE b

\* OptionsChainFetcher._get_underlying_price: the midpoint of bid and ask; the
\* ValueError raised when the response has no entry for the symbol; the
\* TypeError of the addition when the entry carries no bid or no ask.
GetUnderlyingPrice(quote) ==
    IF quote = None THEN Raise("ValueError")
    ELSE IF quote[1].bid_price = None \/ quote[1].ask_price = None
    THEN Raise("TypeError")
    ELSE Value((quote[1].bid_price[1] + quote[1].ask_price[1]) \div 2)

\* A snapshot of the brokerage for one option symbol.
Snapshot(latest_quote, latest_trade, greeks, open_interest, daily_bar, iv) ==
    [latest_quote |-> latest_quote, latest_trade |-> latest_trade, greeks |-> greeks,
     open_interest |-> open_interest, daily_bar |-> daily_bar,
     implied_volatility |-> iv]

\* x or 0
OrZero(x) == IF x = None THEN 0 ELSE x[1]

\* hasattr(snapshot, attr)
HasAttr(snapshot, attr) == attr \in DOMAIN snapshot

\* The attributes _parse_snapshot reads without hasattr: one missing raises
\* AttributeError.
RequiredAttrs == {"latest_quote", "latest_trade", "greeks", "daily_bar"}

\* OptionsChainFetcher._parse_snapshot: Some contract, or None when parsing fails
\* (strptime or int raise ValueError on a part below 0, which stands for text
\* that is not a date or not a number; a missing attribute raises AttributeError).
ParseSnapshot(occ_symbol, underlying, snapshot) ==
    IF occ_symbol.date_part < 0 \/ occ_symbol.strike_part < 0 THEN None
    ELSE IF \E a \in RequiredAttrs : ~HasAttr(snapshot, a) THEN None
    ELSE LET quote == snapshot.latest_quote
             trade == snapshot.latest_trade
             greeks == snapshot.greeks
         IN Some(OptionContract(
                occ_symbol, underlying, Date(occ_symbol.date_part),
                occ_symbol.strike_part \div 1000,
                IF occ_symbol.type_char = "C" THEN "call" ELSE "put",
                IF HasAttr(snapshot, "open_interest")
                THEN OrZero(snapshot.open_interest) ELSE 0,
                IF snapshot.daily_bar # None THEN snapshot.daily_bar[1].volume ELSE 0,
                IF quote # None THEN quote[1].bid_price ELSE 0,
                IF quote # None THEN quote[1].ask_price ELSE 0,
                IF trade # None THEN trade[1].price ELSE 0,
                IF greeks # None THEN Some(greeks[1].delta) ELSE None,
                IF greeks # None THEN Some(greeks[1].gamma) ELSE None,
                IF greeks # None THEN Some(greeks[1].theta) ELSE None,
                IF greeks # None THEN Some(greeks[1].vega) ELSE None,
                IF HasAttr(snapshot, "implied_volatility")
                THEN snapshot.implied_volatility ELSE None))

\* The inner loop of fetch over the snapshots of one batch: the contracts of
\* the snapshots that parse, in the order of the response.
ParseBatch(underlying, items) ==
    LET parsed == [k \in 1..Len(items) |->
                      ParseSnapshot(items[k][1], underlying, items[k][2])]
        kept == SelectSeq(parsed, LAMBDA x : x # None)
    IN [k \in 1..Len(kept) |-> kept[k][1]]

\* A loop that a failed batch ends: the batches after it are not requested.
RECURSIVE BatchLoop_StopsAtFailure(_, _, _, _, _)
BatchLoop_StopsAtFailure(underlying, option_symbols, venue, failed, i) ==
    IF i >= Len(option_symbols) THEN [contracts |-> <<>>, requests |-> <<>>]
    ELSE IF (i \div batch_size) + 1 \in failed
    THEN [contracts |-> <<>>, requests |-> <<i>>]
    ELSE LET batch_symbols == SubSeq(option_symbols, i + 1,
                                     Min(i + batch_size, Len(option_symbols)))
             rest == BatchLoop_StopsAtFailure(underlying, option_symbols, venue,
                                              failed, i + batch_size)
         IN [contracts |-> ParseBatch(underlying,
                                      [k \in 1..Len(batch_symbols) |->
                                          <<batch_symbols[k], venue[batch_symbols[k]]>>])
                           \o rest.contracts,
             requests |-> <<i>> \o rest.requests]

\* The loop of fetch over the batches, from offset i on: the contracts collected
\* and the offsets of the batches requested.  venue gives the snapshot of a
\* symbol; failed is the set of batch numbers whose request raises.
RECURSIVE BatchLoop(_, _, _, _, _)
BatchLoop(underlying, option_symbols, venue, failed, i) ==
    IF i >= Len(option_symbols) THEN [contracts |-> <<>>, requests |-> <<>>]
    ELSE LET batch_symbols == SubSeq(option_symbols, i + 1,
                                     Min(i + batch_size, Len(option_symbols)))
             rest == BatchLoop(underlying, option_symbols, venue, failed, i + batch_size)
             got == IF (i \div batch_size) + 1 \in failed THEN <<>>
                    ELSE ParseBatch(underlying,
                                    [k \in 1..Len(batch_symbols) |->
                                        <<batch_symbols[k], venue[batch_symbols[k]]>>])
         IN [contracts |-> got \o rest.contracts,
             requests |-> <<i>> \o rest.requests]

\* The keyword arguments of fetch; the strike bounds and the ends of
\* moneyness_range are fractions, None when not given.
FetchKwargs(min_dte, max_dte, option_type, min_strike, max_strike, moneyness_range) ==
    [option_type |-> option_type, min_dte |-> min_dte, max_dte |-> max_dte,
     min_strike |-> min_strike, max_strike |-> max_strike,
     moneyness_range |-> moneyness_range]

\* The defaults of the signature of fetch.
DefaultFetchKwargs == FetchKwargs(0, 90, "both", None, None, None)

\* The request fetch builds for the list of contracts: expirations from
\* today + min_dte to today + max_dte, the type unless "both", the strike
\* bounds given or computed from moneyness_range and the price.
ContractsRequest(symbol, underlying_price, today, fetch_kwargs) ==
    LET min_strike == IF fetch_kwargs.moneyness_range # None
                      THEN Some(FracMul(Num(underlying_price),
                                        fetch_kwargs.moneyness_range[1][1]))
                      ELSE fetch_kwargs.min_strike
        max_strike == IF fetch_kwargs.moneyness_range # None
                      THEN Some(FracMul(Num(underlying_price),
                                        fetch_kwargs.moneyness_range[1][2]))
                      ELSE fetch_kwargs.max_strike
    IN [underlying_symbols |-> <<symbol>>,
        expiration_date_gte |-> today + fetch_kwargs.min_dte,
        expiration_date_lte |-> today + fetch_kwargs.max_dte,
        type |-> IF fetch_kwargs.option_type # "both"
                 THEN Some(fetch_kwargs.option_type) ELSE None,
        strike_price_gte |-> min_strike,
        strike_price_lte |-> max_strike]

\* OptionsChainFetcher.fetch: what it returns, the cache directory afterwards,
\* the request for the list of contracts and the batch requests it issued.
\* option_symbols is the brokerage's answer to the request.
FetchResult(f, clock, auto, symbol, fetch_kwargs, quote, option_symbols, venue, failed) ==
    LET sym == Upper(symbol)
        underlying_price == GetUnderlyingPrice(quote)
    IN IF underlying_price.kind = "raise"
       THEN [ret |-> underlying_price, fs |-> f, requests |-> <<>>, listed |-> FALSE,
             request |-> None]
       ELSE LET request == ContractsRequest(sym, underlying_price.val[1],
                                            DateOf(clock), fetch_kwargs)
            IN IF option_symbols = <<>>
               THEN [ret |-> Value(OptionsChainData(sym, underlying_price.val[1],
                                                    clock, <<>>)),
                     fs |-> f, requests |-> <<>>, listed |-> TRUE,
                     request |-> Some(request)]
               ELSE LET loop == BatchLoop(sym, option_symbols, venue, failed, 0)
                        chain_data == OptionsChainData(sym, underlying_price.val[1],
                                                       clock, loop.contracts)
                    IN [ret |-> Value(chain_data),
                        fs |-> IF auto THEN SaveFs(f, chain_data) ELSE f,
                        requests |-> loop.requests, listed |-> TRUE,
                        request |-> Some(request)]

\* A fresh cached entry is cut down to the option type asked for.
FetchCachedOrLiveResult_FiltersCached(f, clock, auto, symbol, max_age_minutes, fetch_kwargs, quote, option_symbols, venue, failed) ==
    LET cached == LoadLatestResult(f, symbol)
    IN IF cached.kind = "raise"
       THEN [ret |-> cached, fs |-> f, requests |-> <<>>, listed |-> FALSE,
             request |-> None, live |-> FALSE]
       ELSE IF /\ cached.kind = "value"
               /\ clock - cached.val[1].fetch_timestamp
                     < max_age_minutes * SecondsPerMinute * TicksPerSec
       THEN [ret |-> Value([cached.val[1] EXCEPT !.contracts = SelectSeq(@, LAMBDA c :
                               \/ fetch_kwargs.option_type = "both"
                               \/ c.option_type = fetch_kwargs.option_type)]),
             fs |-> f, requests |-> <<>>, listed |-> FALSE,
             request |-> None, live |-> FALSE]
       ELSE [live |-> TRUE] @@
            FetchResult(f, clock, auto, symbol, fetch_kwargs, quote, option_symbols,
                        venue, failed)

\* OptionsChainFetcher.fetch_cached_or_live; live tells whether fetch was called.
FetchCachedOrLiveResult(f, clock, auto, symbol, max_age_minutes, fetch_kwargs, quote, option_symbols, venue, failed) ==
    LET cached == LoadLatestResult(f, symbol)
    IN IF cached.kind = "raise"
       THEN [ret |-> cached, fs |-> f, requests |-> <<>>, listed |-> FALSE,
             request |-> None, live |-> FALSE]
       ELSE IF /\ cached.kind = "value"
               /\ clock - cached.val[1].fetch_timestamp
                     < max_age_minutes * SecondsPerMinute * TicksPerSec
       THEN [ret |-> cached, fs |-> f, requests |-> <<>>, listed |-> FALSE,
             request |-> None, live |-> FALSE]
       ELSE [live |-> TRUE] @@
            FetchResult(f, clock, auto, symbol, fetch_kwargs, quote, option_symbols,
                        venue, failed)

(***************************************************************************)
(* The brokerage's answers used as inputs.                                 *)
(***************************************************************************)
GoodQuote == Some([bid_price |-> Some(99), ask_price |-> Some(101)])
Quotes == {None, GoodQuote}
\* The answers for a ticker whose quote cannot be resolved: no entry, an entry
\* without bid and ask, an entry whose bid and ask are 0.
UnresolvedQuotes ==
    {None, Some([bid_price |-> None, ask_price |-> None]),
     Some([bid_price |-> Some(0), ask_price |-> Some(0)])}

\* The i-th option symbol of an underlying: calls and puts alternate, strikes
\* rise; one symbol in seven has a strike part that is not a number, one in nine
\* a date part that is not a date, one in eleven a type character "X".
OccOf(u, i) ==
    Occ(u, IF i % 9 = 8 THEN -1 ELSE 10 + (i % 2) * 10,
        IF i % 11 = 5 THEN "X" ELSE IF i % 2 = 0 THEN "C" ELSE "P",
        IF i % 7 = 3 THEN -1 ELSE (100 + i) * 1000)

Listing(u, n) == [i \in 1..n |-> OccOf(u, i)]

\* The brokerage's answer to a request: the contracts of its list that the
\* request selects.  A part of a symbol that is not a date or not a number
\* stands for malformed text, not for the brokerage's own record, which is
\* taken to be within the bounds.
GetOptionContracts(request, listing) ==
    SelectSeq(listing, LAMBDA occ :
        /\ request.type # None =>
              occ.type_char = (IF request.type[1] = "call" THEN "C" ELSE "P")
        /\ occ.date_part >= 0 =>
              /\ request.expiration_date_gte <= occ.date_part
              /\ occ.date_part <= request.expiration_date_lte
        /\ (occ.strike_part >= 0 /\ request.strike_price_gte # None) =>
              FracLe(request.strike_price_gte[1], Frac(occ.strike_part, 1000))
        /\ (occ.strike_part >= 0 /\ request.strike_price_lte # None) =>
              FracLe(Frac(occ.strike_part, 1000), request.strike_price_lte[1]))

\* What fetch is given as the list of contracts of a ticker of which the
\* brokerage lists n: the answer to its request.
ListedFor(symbol, fetch_kwargs, quote, clock, n) ==
    LET underlying_price == GetUnderlyingPrice(quote)
    IN IF underlying_price.kind = "raise" THEN Listing(Upper(symbol), n)
       ELSE GetOptionContracts(
                ContractsRequest(Upper(symbol), underlying_price.val[1],
                                 DateOf(clock), fetch_kwargs),
                Listing(Upper(symbol), n))

\* The venue's snapshot of a symbol: full data for calls, bare for the others,
\* and for one strike in thirteen an object without the attributes.
SnapshotOf(occ) ==
    IF occ.strike_part > 0 /\ (occ.strike_part \div 1000) % 13 = 0
    THEN [open_interest |-> None]
    ELSE IF occ.type_char = "C"
    THEN Snapshot(Some([bid_price |-> 1, ask_price |-> 2]), Some([price |-> 1]),
                  Some([delta |-> 5, gamma |-> 1, theta |-> -1, vega |-> 2]),
                  Some(occ.strike_part \div 1000), Some([volume |-> 7]), Some(30))
    ELSE Snapshot(None, None, None, None, None, None)

Venue(option_symbols) ==
    [occ \in SeqToSet(option_symbols) |-> SnapshotOf(occ)]

NumBatches(n) == (n + batch_size - 1) \div batch_size

(***************************************************************************)
(* The operations of the fetcher, as actions.                              *)
(***************************************************************************)
Fetch(symbol, fetch_kwargs, quote, n, failed) ==
    /\ writes < MaxWrites
    /\ \E option_symbols \in {ListedFor(symbol, fetch_kwargs, quote, now, n)} :
          \E r \in {FetchResult(fs, now, auto_cache, symbol, fetch_kwargs, quote,
                                option_symbols, Venue(option_symbols), failed)} :
             /\ fs' = r.fs
             /\ last' = [op |-> "fetch", symbol |-> symbol, quote |-> quote,
                         fetch_kwargs |-> fetch_kwargs, request |-> r.request,
                         listing |-> Listing(Upper(symbol), n),
                         option_symbols |-> option_symbols, failed |-> failed,
                         ret |-> r.ret, requests |-> r.requests, listed |-> r.listed,
                         live |-> TRUE]
    /\ writes' = writes + 1
    /\ UNCHANGED <<now, auto_cache, heatmap>>

FetchCachedOrLive(symbol, max_age_minutes, fetch_kwargs, quote, n, failed) ==
    /\ writes < MaxWrites
    /\ \E option_symbols \in {ListedFor(symbol, fetch_kwargs, quote, now, n)} :
          \E r \in {FetchCachedOrLiveResult(fs, now, auto_cache, symbol,
                                            max_age_minutes, fetch_kwargs, quote,
                                            option_symbols, Venue(option_symbols),
                                            failed)} :
             /\ fs' = r.fs
             /\ last' = [op |-> "fetch_cached_or_live", symbol |-> symbol,
                         fetch_kwargs |-> fetch_kwargs, request |-> r.request,
                         listing |-> Listing(Upper(symbol), n),
                         max_age_minutes |-> max_age_minutes, quote |-> quote,
                         option_symbols |-> option_symbols, failed |-> failed,
                         ret |-> r.ret, requests |-> r.requests, listed |-> r.listed,
                         live |-> r.live,
                         \* what load_latest gave at the call
                         cached |-> LoadLatestResult(fs, symbol)]
    /\ writes' = writes + 1
    /\ UNCHANGED <<now, auto_cache, heatmap>>

\* Time passes.
Tick(t) ==
    /\ t > now
    /\ now' = t
    /\ UNCHANGED <<fs, auto_cache, writes, last, heatmap>>

\* OptionsChainFetcher.__init__ with credentials: an empty cache directory.
Init ==
    /\ fs = <<>>
    /\ now = T(0, 0)
    /\ auto_cache \in BOOLEAN
    /\ writes = 0
    /\ heatmap = None
    /\ last = [op |-> "init"]

SmallListings == {0, 2}

FetchInputs ==
    {<<q, n, failed>> \in Quotes \X SmallListings \X SUBSET {1} :
        /\ (q = None => n = 0 /\ failed = {})
        /\ (n = 0 => failed = {})}

Next ==
    \/ \E t \in TimePoints : Tick(t)
    \/ \E ts \in {T(0, 0), T(60, 0)}, stage \in {"mkdir", "open"} :
          SaveInterrupted("SPY", ts, stage)
    \/ \E symbol \in {"spy", "QQQ"}, in \in FetchInputs :
          Fetch(symbol, DefaultFetchKwargs, in[1], in[2], in[3])
    \/ \E symbol \in {"spy", "QQQ"}, max_age \in {0, 1}, in \in FetchInputs :
          FetchCachedOrLive(symbol, max_age, DefaultFetchKwargs, in[1], in[2], in[3])

Spec == Init /\ [][Next]_vars

\* The fetcher alone against listings of up to three batches.
BigListings == {0, 1, batch_size, batch_size + 1, 2 * batch_size + 1}

NextFetch ==
    \/ \E symbol \in {"spy"}, n \in BigListings :
          \E failed \in SUBSET (1..NumBatches(n)) :
             Fetch(symbol, DefaultFetchKwargs, GoodQuote, n, failed)
    \/ \E symbol \in {"spy"}, quote \in UnresolvedQuotes, n \in {0, 1} :
          Fetch(symbol, DefaultFetchKwargs, quote, n, {})

SpecFetch == Init /\ [][NextFetch]_vars

\* The filters of a call: the defaults; calls within the moneyness bounds of
\* the command line; expirations from day 15 on with a least strike.
SampleFetchKwargs ==
    {DefaultFetchKwargs,
     FetchKwargs(0, 90, "call", None, None, Some(<<Frac(4, 5), Frac(6, 5)>>)),
     FetchKwargs(15, 90, "both", Some(Num(101)), None, None)}

\* The fetcher called with filters, against a brokerage that lists no contract
\* or a put and a call.
NextCachedOrLive ==
    \/ \E t \in TimePoints : Tick(t)
    \/ \E fetch_kwargs \in SampleFetchKwargs, n \in {0, 2} :
          Fetch("spy", fetch_kwargs, GoodQuote, n, {})
    \/ \E symbol \in {"spy", "SPY"}, max_age \in {0, 1},
          fetch_kwargs \in SampleFetchKwargs, n \in {0, 2} :
          FetchCachedOrLive(symbol, max_age, fetch_kwargs, GoodQuote, n, {})

SpecCachedOrLive == Init /\ [][NextCachedOrLive]_vars

\* The cache driven by save and clear alone, with foreign subdirectories.
NextSaveClear ==
    \/ \E chain \in SampleChains : Save(chain)
    \/ \E t \in {Upper(u) : u \in Tickers}, name \in ForeignNames : ForeignDir(t, name)
    \/ \E t \in Tickers, ts \in TimePoints : Load(t, ts)
    \/ \E t \in Tickers : ListCached(t)
    \/ \E t \in OptionalTickers, older \in OptionalTimes : ClearCache(t, older)

SpecSaveClear == InitCache /\ [][NextSaveClear]_vars

(***************************************************************************)
(* Properties of the cache.                                                *)
(***************************************************************************)
UpperTickers == {Upper(u) : u \in Tickers}
Names(f, t) == DOMAIN SubDirs(f, t)
TimestampNames(f, t) == {n \in Names(f, t) : Strptime(n) # None}

\* C4: save(s) followed immediately by load(s.ticker, s.timestamp) returns a
\* snapshot equal to s, whatever else the cache holds.
C4_SaveThenLoad ==
    (/\ last.op = "load"
     /\ last.after_save # None
     /\ last.ticker = last.after_save[1].underlying_symbol
     /\ last.timestamp = last.after_save[1].fetch_timestamp)
    => last.ret = Value(last.after_save[1])

\* A load right after the save of the same key, in a ticker directory that
\* holds another entry as well.
C4_Witness ==
    /\ last.op = "load"
    /\ last.after_save # None
    /\ last.ticker = last.after_save[1].underlying_symbol
    /\ last.timestamp = last.after_save[1].fetch_timestamp
    /\ Micro(last.timestamp) # 0
    /\ Cardinality(Names(fs, Upper(last.ticker))) >= 2

\* What C5 expects of load_latest: the snapshot of the most recent timestamp
\* subdirectory whose snapshot file exists and deserializes, None when there is
\* none, and never an error.
DeserializableNames(f, t) ==
    {n \in TimestampNames(f, t) : f[t][n].chain # None /\ f[t][n].chain[1].ok}

ExpectedLatest(f, ticker) ==
    LET t == Upper(ticker)
        S == DeserializableNames(f, t)
    IN IF S = {} THEN NoneResult
       ELSE LET m == CHOOSE x \in S : \A y \in S : Strptime(y)[1] <= Strptime(x)[1]
            IN Value(DeserializeChain(f[t][m].chain[1].data[1]))

\* C5: load_latest returns the snapshot of the first timestamp subdirectory, most
\* recent first, that deserializes; one whose file is missing or fails to
\* deserialize is skipped without an error.
C5_LoadLatestSkipsFailures ==
    last.op = "load_latest" => last.ret = ExpectedLatest(fs, last.ticker)

\* The part of C5 the code does: a subdirectory without a snapshot file is skipped.
C5_MissingFileSkipped ==
    (last.op = "load_latest" /\ last.ret.kind # "raise")
    => last.ret = ExpectedLatest(fs, last.ticker)

IsStrictlyDescending(s) == \A i \in 1..(Len(s) - 1) : s[i] > s[i + 1]

\* The capture timestamps, cut to the second, of the snapshots stored for t.
StoredSeconds(f, t) ==
    {T(Second(FromIsoformat(f[t][n].chain[1].data[1].fetch_timestamp)), 0) :
        n \in {m \in Names(f, t) : f[t][m].chain # None}}

\* C6: after saves and clears, list_cached(ticker) returns, strictly descending,
\* exactly the second-precision timestamps of the ticker's stored entries; names
\* that do not parse and other tickers' entries do not appear.
C6_ListCachedExact ==
    last.op = "list_cached" =>
        /\ IsStrictlyDescending(last.ret)
        /\ SeqToSet(last.ret) = StoredSeconds(fs, Upper(last.ticker))

\* A listing of two entries of a ticker directory that also holds a foreign
\* subdirectory.
C6_Witness ==
    /\ last.op = "list_cached"
    /\ Len(last.ret) = 2
    /\ \E n \in Names(fs, Upper(last.ticker)) : Strptime(n) = None

RECURSIVE CountDirs(_, _)
CountDirs(f, S) ==
    IF S = {} THEN 0
    ELSE LET t == CHOOSE u \in S : TRUE
         IN Cardinality(Names(f, t)) + CountDirs(f, S \ {t})

\* The tickers a clear with this ticker argument covers.
InScope(f, ticker) ==
    IF ticker = None THEN DOMAIN f ELSE {Upper(ticker[1])} \cap DOMAIN f

SameEntries(f, g, t) ==
    /\ SubDirs(f, t) = SubDirs(g, t)
    /\ \A u \in {x \in Tickers : Upper(x) = t} :
          /\ ListCachedResult(f, u) = ListCachedResult(g, u)
          /\ \A ts \in TimePoints : LoadResult(f, u, ts) = LoadResult(g, u, ts)

\* C7: clear without filters removes every entry of every ticker; clear with a
\* ticker removes that ticker's entries and leaves the others' unchanged; the
\* number returned is the number of entries removed.
C7_ClearUnfiltered ==
    [][(last'.op = "clear_cache" /\ last'.older_than = None) =>
          /\ \A t \in InScope(fs, last'.ticker) : Names(fs', t) = {}
          /\ \A t \in UpperTickers \ InScope(fs, last'.ticker) : SameEntries(fs, fs', t)
          /\ last'.ret = CountDirs(fs, InScope(fs, last'.ticker))
          /\ last'.ret = CountDirs(fs, DOMAIN fs) - CountDirs(fs', DOMAIN fs')]_vars

\* A clear of one ticker that removed two entries while the other ticker kept one.
C7_Witness ==
    /\ last.op = "clear_cache"
    /\ last.older_than = None
    /\ last.ticker # None
    /\ last.ret = 1
    /\ \E u \in UpperTickers \ {Upper(last.ticker[1])} : TimestampNames(fs, u) # {}

\* The names a clear with this bound is to remove: the timestamp names (second
\* precision) strictly earlier than the bound.
OlderNames(f, t, bound) ==
    {n \in TimestampNames(f, t) : Strptime(n)[1] < bound}

\* C8: clear with an older_than bound removes exactly the in-scope entries whose
\* timestamp (the second-precision timestamp of the entry's name) is strictly
\* earlier than the bound; entries at or after the bound, entries with a name that
\* does not parse, and entries out of scope stay as they were.
C8_ClearOlderThan ==
    [][(last'.op = "clear_cache" /\ last'.older_than # None) =>
          /\ \A t \in InScope(fs, last'.ticker) :
                /\ Names(fs', t) = Names(fs, t) \ OlderNames(fs, t, last'.older_than[1])
                /\ \A n \in Names(fs', t) : fs'[t][n] = fs[t][n]
          /\ \A t \in UpperTickers \ InScope(fs, last'.ticker) :
                SubDirs(fs', t) = SubDirs(fs, t)]_vars

\* A bounded clear that removed an older entry and kept one at or after the bound.
C8_Witness ==
    /\ last.op = "clear_cache"
    /\ last.older_than # None
    /\ last.ret = 1
    /\ \E t \in InScope(fs, last.ticker) :
          \E n \in TimestampNames(fs, t) : Strptime(n)[1] >= last.older_than[1]

\* C9: a subdirectory whose name does not parse as a timestamp is ignored by every
\* clear, with or without a bound: it stays, and it is not counted.
C9_ClearIgnoresForeign ==
    [][last'.op = "clear_cache" =>
          /\ \A t \in DOMAIN fs : Names(fs, t) \ TimestampNames(fs, t) \subseteq Names(fs', t)
          /\ last'.ret = Cardinality(UNION {{<<t, n>> : n \in TimestampNames(fs, t) \ Names(fs', t)} :
                                              t \in DOMAIN fs})]_vars

(***************************************************************************)
(* Serialization on its own: a snapshot is drawn, then serialized and      *)
(* deserialized.                                                           *)
(***************************************************************************)
OptionalFields == {"delta", "gamma", "theta", "vega", "implied_volatility"}

Opt(absent, field, v) == IF field \in absent THEN None ELSE Some(v)

\* A contract with the optional fields of the set absent left out.
RoundTripContract(absent, otype, expiration) ==
    OptionContract(Occ("SPY", 10, IF otype = "call" THEN "C" ELSE "P", 100000),
                   "SPY", expiration, 100, otype, 50, 7, 1, 2, 1,
                   Opt(absent, "delta", 5), Opt(absent, "gamma", 1),
                   Opt(absent, "theta", -1), Opt(absent, "vega", 2),
                   Opt(absent, "implied_volatility", 30))

RoundTripContracts ==
    {RoundTripContract(absent, "call", Date(10)) : absent \in SUBSET OptionalFields}
    \cup {RoundTripContract(OptionalFields, "put", Date(20) + 1)}

SeqsUpTo(S, n) == UNION {[1..k -> S] : k \in 0..n}

RoundTripChains ==
    {OptionsChainData("SPY", 100, ts, cs) :
        ts \in {T(0, 0), T(60, 1)}, cs \in SeqsUpTo(RoundTripContracts, MaxContracts)}

InitRoundTrip ==
    /\ fs = <<>>
    /\ now = T(0, 0)
    /\ auto_cache = TRUE
    /\ writes = 0
    /\ heatmap = None
    /\ \E chain \in RoundTripChains : last = [op |-> "input", chain |-> chain]

RoundTrip ==
    /\ last.op = "input"
    /\ last' = [op |-> "round_trip", chain |-> last.chain,
                back |-> DeserializeChain(SerializeChain(last.chain))]
    /\ UNCHANGED <<fs, now, auto_cache, writes, heatmap>>

NextRoundTrip == RoundTrip

SpecRoundTrip == InitRoundTrip /\ [][NextRoundTrip]_vars

ContractFields ==
    {"symbol", "underlying_symbol", "expiration_date", "strike_price", "option_type",
     "open_interest", "volume", "bid", "ask", "last_price"} \cup OptionalFields

\* C3: deserializing the serialization of a snapshot yields the snapshot: ticker,
\* underlying price, capture timestamp, and the contracts in the same order with
\* every field equal.
C3_RoundTrip ==
    last.op = "round_trip" =>
        /\ last.back.underlying_symbol = last.chain.underlying_symbol
        /\ last.back.underlying_price = last.chain.underlying_price
        /\ last.back.fetch_timestamp = last.chain.fetch_timestamp
        /\ Len(last.back.contracts) = Len(last.chain.contracts)
        /\ \A i \in 1..Len(last.chain.contracts) : \A k \in ContractFields :
              last.back.contracts[i][k] = last.chain.contracts[i][k]

\* A round trip of two different contracts, one with every optional field absent
\* and one with some present, under a timestamp with a sub-second part.
C3_Witness ==
    /\ last.op = "round_trip"
    /\ Len(last.chain.contracts) = 2
    /\ Micro(last.chain.fetch_timestamp) # 0
    /\ \A k \in OptionalFields : last.chain.contracts[1][k] = None
    /\ last.chain.contracts[2].delta # None
    /\ last.chain.contracts[2].gamma = None

(***************************************************************************)
(* Properties of the fetcher.                                              *)
(***************************************************************************)
Threshold(max_age_minutes) == max_age_minutes * SecondsPerMinute * TicksPerSec

\* The result of the live path for the inputs recorded in an operation.
LiveResult(f, clock, auto, op) ==
    FetchResult(f, clock, auto, op.symbol, op.fetch_kwargs, op.quote,
                op.option_symbols, Venue(op.option_symbols), op.failed)

\* C1: fetch_cached_or_live returns the most recent cached entry of the ticker,
\* without calling fetch, when its age is strictly below the threshold; with no
\* cached entry, or one whose age is at or above the threshold, it calls fetch
\* and returns what fetch returns.
C1_FreshnessSelection ==
    [][(last'.op = "fetch_cached_or_live" /\ writes' = writes + 1) =>
          LET entry == ExpectedLatest(fs, last'.symbol)
          IN IF /\ entry.kind = "value"
                /\ now - entry.val[1].fetch_timestamp < Threshold(last'.max_age_minutes)
             THEN last'.live = FALSE /\ last'.ret = entry
             ELSE last'.live = TRUE
                  /\ last'.ret = LiveResult(fs, now, auto_cache, last').ret]_vars

\* What the code does of C1: the same, whenever load_latest returns.
C1_WhenLoadLatestReturns ==
    [][(/\ last'.op = "fetch_cached_or_live"
        /\ writes' = writes + 1
        /\ last'.cached.kind # "raise") =>
          LET entry == ExpectedLatest(fs, last'.symbol)
          IN IF /\ entry.kind = "value"
                /\ now - entry.val[1].fetch_timestamp < Threshold(last'.max_age_minutes)
             THEN last'.live = FALSE /\ last'.ret = entry
             ELSE last'.live = TRUE
                  /\ last'.ret = LiveResult(fs, now, auto_cache, last').ret]_vars

\* C2: with auto_cache, every live fetch that returns a snapshot, of any number
\* of contracts, has saved it: load(ticker, timestamp) returns it right after.
C2_LiveFetchIsCached ==
    (/\ last.op \in {"fetch", "fetch_cached_or_live"}
     /\ last.live
     /\ auto_cache
     /\ last.ret.kind = "value")
    => LoadResult(fs, last.ret.val[1].underlying_symbol,
                  last.ret.val[1].fetch_timestamp) = last.ret

\* What the code does of C2: the snapshot is saved when the brokerage listed at
\* least one option symbol.
C2_ListedFetchIsCached ==
    (/\ last.op \in {"fetch", "fetch_cached_or_live"}
     /\ last.live
     /\ auto_cache
     /\ last.ret.kind = "value"
     /\ last.option_symbols # <<>>)
    => LoadResult(fs, last.ret.val[1].underlying_symbol,
                  last.ret.val[1].fetch_timestamp) = last.ret

BatchOf(i) == ((i - 1) \div batch_size) + 1

\* The contracts C10 expects of a fetch: those parsed from the symbols of the
\* batches whose request succeeded.
ExpectedContracts(op) ==
    {ParseSnapshot(op.option_symbols[i], Upper(op.symbol),
                   SnapshotOf(op.option_symbols[i]))[1] :
        i \in {j \in 1..Len(op.option_symbols) :
                  /\ BatchOf(j) \notin op.failed
                  /\ ParseSnapshot(op.option_symbols[j], Upper(op.symbol),
                                   SnapshotOf(op.option_symbols[j])) # None}}

\* C10: for every pattern of batch failures, fetch requests each batch exactly
\* once, a failed batch contributes no contract, every other batch's parsed
\* contracts are all in the result, and fetch returns a snapshot.
C10_BatchFailureIsolated ==
    (/\ last.op = "fetch"
     /\ GetUnderlyingPrice(last.quote).kind = "value"
     /\ last.option_symbols # <<>>) =>
        /\ last.ret.kind = "value"
        /\ last.requests = [k \in 1..NumBatches(Len(last.option_symbols)) |->
                               (k - 1) * batch_size]
        /\ SeqToSet(last.ret.val[1].contracts) = ExpectedContracts(last)
        /\ Len(last.ret.val[1].contracts) = Cardinality(ExpectedContracts(last))

\* A fetch of three batches of which the second failed: the contracts of the
\* first and of the third are there.
C10_Witness ==
    /\ last.op = "fetch"
    /\ last.failed = {2}
    /\ Len(last.requests) = 3
    /\ last.ret.kind = "value"
    /\ \E c \in SeqToSet(last.ret.val[1].contracts) : c.strike_price = 100 + 1
    /\ \E c \in SeqToSet(last.ret.val[1].contracts) :
          c.strike_price = 100 + 2 * batch_size + 1

(***************************************************************************)
(* OptionsChainFetcher.__init__: the credentials come from the arguments   *)
(* or from the environment; strings are optional values, "" the empty one. *)
(***************************************************************************)
\* x or y
Or(x, y) == IF x = None \/ x = Some("") THEN y ELSE x
\* not x
Falsy(x) == x = None \/ x = Some("")

\* os.environ.get(name), and with a default
EnvironGet(environ, name) == environ[name]
EnvironGetDefault(environ, name, default) ==
    IF environ[name] = None THEN default ELSE environ[name][1]

\* str.lower on the values of ALPACA_PAPER
Lower(str) == IF str = "FALSE" THEN "false" ELSE IF str = "No" THEN "no" ELSE str

\* A constructor that tests the key alone.
Construct_ChecksKeyOnly(f, api_key_arg, secret_key_arg, paper_arg, auto, environ) ==
    LET api_key == Or(api_key_arg, EnvironGet(environ, "ALPACA_API_KEY"))
        secret_key == Or(secret_key_arg, EnvironGet(environ, "ALPACA_SECRET_KEY"))
    IN IF Falsy(api_key)
       THEN [ret |-> Raise("ValueError"), fs |-> f, clients |-> <<>>]
       ELSE [ret |-> Value([api_key |-> api_key, secret_key |-> secret_key,
                            paper |-> paper_arg, auto_cache |-> auto]),
             fs |-> f,
             clients |-> <<[client |-> "TradingClient", paper |-> paper_arg]>>]

\* OptionsChainFetcher.__init__: the exception raised or the fetcher built, the
\* cache directory afterwards and the brokerage clients created.
Construct(f, api_key_arg, secret_key_arg, paper_arg, auto, environ) ==
    LET api_key == Or(api_key_arg, EnvironGet(environ, "ALPACA_API_KEY"))
        secret_key == Or(secret_key_arg, EnvironGet(environ, "ALPACA_SECRET_KEY"))
        paper_env == Lower(EnvironGetDefault(environ, "ALPACA_PAPER", "true"))
        paper == IF paper_env \in {"false", "0", "no"} THEN FALSE ELSE paper_arg
    IN IF Falsy(api_key) \/ Falsy(secret_key)
       THEN [ret |-> Raise("ValueError"), fs |-> f, clients |-> <<>>]
       ELSE [ret |-> Value([api_key |-> api_key, secret_key |-> secret_key,
                            paper |-> paper, auto_cache |-> auto]),
             fs |-> f,
             clients |-> <<[client |-> "TradingClient", api_key |-> api_key,
                            secret_key |-> secret_key, paper |-> paper],
                           [client |-> "OptionHistoricalDataClient",
                            api_key |-> api_key, secret_key |-> secret_key]>>]

OptionalStrings == {None, Some(""), Some("k")}
Environs ==
    [ALPACA_API_KEY : OptionalStrings, ALPACA_SECRET_KEY : {None, Some("s")},
     ALPACA_PAPER : {None, Some("FALSE"), Some("yes")}]

\* A process constructs its fetcher.
NewFetcher(api_key_arg, secret_key_arg, paper_arg, auto, environ) ==
    /\ \E r \in {Construct(fs, api_key_arg, secret_key_arg, paper_arg, auto, environ)} :
          /\ fs' = r.fs
          /\ auto_cache' = IF r.ret.kind = "value" THEN auto ELSE auto_cache
          /\ last' = [op |-> "construct", api_key |-> api_key_arg,
                      secret_key |-> secret_key_arg, environ |-> environ,
                      ret |-> r.ret, clients |-> r.clients]
    /\ UNCHANGED <<now, writes, heatmap>>

\* The fetcher of the process exists: its construction returned.
Constructed ==
    \/ last.op = "fetch"
    \/ last.op = "construct" /\ last.ret.kind = "value"

\* Before any construction, over a cache directory left by an earlier run.
InitConstruct ==
    /\ fs \in {<<>>, SaveFs(<<>>, OptionsChainData("SPY", 100, T(0, 0), <<>>))}
    /\ now = T(0, 0)
    /\ auto_cache = FALSE
    /\ writes = 0
    /\ heatmap = None
    /\ last = [op |-> "none"]

NextConstruct ==
    \/ \E k \in OptionalStrings, sk \in {None, Some("s")}, environ \in Environs,
          paper_arg \in BOOLEAN, auto \in BOOLEAN :
          NewFetcher(k, sk, paper_arg, auto, environ)
    \/ Constructed /\ \E quote \in Quotes, n \in {0, 1} : Fetch("spy", DefaultFetchKwargs, quote, n, {})

SpecConstruct == InitConstruct /\ [][NextConstruct]_vars

\* A credential is unavailable: neither passed nor set in the environment.
Unavailable(arg, environ, name) == arg = None /\ environ[name] = None

CredentialsMissing(op) ==
    \/ Unavailable(op.api_key, op.environ, "ALPACA_API_KEY")
    \/ Unavailable(op.secret_key, op.environ, "ALPACA_SECRET_KEY")

\* C12, as stated: constructing the fetcher when the key or the secret is
\* unavailable fails with a CredentialError, creates no brokerage client and
\* leaves the cache as it was.
C12_CredentialError ==
    [][(last'.op = "construct" /\ CredentialsMissing(last')) =>
          /\ last'.ret = Raise("CredentialError")
          /\ last'.clients = <<>>
          /\ fs' = fs]_vars

\* C12, amended: the same with the exception the code raises, a ValueError.
C12_ValueError ==
    [][(last'.op = "construct" /\ CredentialsMissing(last')) =>
          /\ last'.ret = Raise("ValueError")
          /\ last'.clients = <<>>
          /\ fs' = fs]_vars

\* A construction with a key and no secret failed over a cache that holds an
\* entry, which is still there.
C12_Witness ==
    /\ last.op = "construct"
    /\ last.api_key = Some("k")
    /\ Unavailable(last.secret_key, last.environ, "ALPACA_SECRET_KEY")
    /\ last.ret = Raise("ValueError")
    /\ last.clients = <<>>
    /\ LoadResult(fs, "SPY", T(0, 0)).kind = "value"

\* The quote of the underlying cannot be resolved.
Unresolved(quote) ==
    \/ quote = None
    \/ quote[1].bid_price = None \/ quote[1].ask_price = None
    \/ quote[1].bid_price = Some(0) /\ quote[1].ask_price = Some(0)

\* C13: when the underlying quote cannot be resolved (no entry for the ticker,
\* or an entry with no bid/ask available), fetch fails with the lookup error:
\* it returns no snapshot, requests no option contracts and no snapshots, and
\* writes nothing to the cache.
C13_UnresolvedQuoteFails ==
    [][(last'.op = "fetch" /\ writes' = writes + 1 /\ Unresolved(last'.quote)) =>
          /\ last'.ret = Raise("ValueError")
          /\ ~last'.listed
          /\ last'.requests = <<>>
          /\ fs' = fs]_vars

\* What the code does of C13: the same when the response holds no entry for
\* the ticker.
C13_NoEntryFails ==
    [][(last'.op = "fetch" /\ writes' = writes + 1 /\ last'.quote = None) =>
          /\ last'.ret = Raise("ValueError")
          /\ ~last'.listed
          /\ last'.requests = <<>>
          /\ fs' = fs]_vars

\* A fetch on an entry whose bid and ask are 0 went on with price 0, requested
\* the snapshots and saved the result.
C13_ZeroQuoteFetched ==
    /\ last.op = "fetch"
    /\ last.quote = Some([bid_price |-> Some(0), ask_price |-> Some(0)])
    /\ last.ret.kind = "value"
    /\ last.ret.val[1].underlying_price = 0
    /\ last.requests # <<>>
    /\ auto_cache => LoadResult(fs, "SPY", last.ret.val[1].fetch_timestamp) = last.ret

\* A symbol that parses under the OCC encoding: a date, C or P, a numeric strike.
OccParses(occ) ==
    occ.date_part >= 0 /\ occ.type_char \in {"C", "P"} /\ occ.strike_part >= 0

\* A snapshot that carries the attributes of the brokerage's snapshot object.
WellFormed(snapshot) == RequiredAttrs \subseteq DOMAIN snapshot

\* The symbols of the result of a fetch.
ResultSymbols(op) == {c.symbol : c \in SeqToSet(op.ret.val[1].contracts)}

\* The symbols of the batches whose request succeeded.
AnsweredSymbols(op) ==
    {op.option_symbols[i] : i \in {j \in 1..Len(op.option_symbols) :
                                      BatchOf(j) \notin op.failed}}

\* C11: a record whose symbol does not parse under the OCC encoding (invalid
\* date, non-numeric strike, type character neither C nor P) or whose snapshot
\* is malformed produces no contract; fetch still returns, and the other records
\* of the batches that succeeded are all in the result.
C11_UnparseableDropped ==
    (/\ last.op = "fetch"
     /\ GetUnderlyingPrice(last.quote).kind = "value"
     /\ last.option_symbols # <<>>) =>
        /\ last.ret.kind = "value"
        /\ ResultSymbols(last) =
              {occ \in AnsweredSymbols(last) :
                  OccParses(occ) /\ WellFormed(SnapshotOf(occ))}

\* What the code does of C11: the records dropped are those on which parsing
\* raises (date, strike, missing attribute); any type character is accepted.
C11_DroppedWhenParsingRaises ==
    (/\ last.op = "fetch"
     /\ GetUnderlyingPrice(last.quote).kind = "value"
     /\ last.option_symbols # <<>>) =>
        /\ last.ret.kind = "value"
        /\ ResultSymbols(last) =
              {occ \in AnsweredSymbols(last) :
                  /\ occ.date_part >= 0 /\ occ.strike_part >= 0
                  /\ WellFormed(SnapshotOf(occ))}

\* The record of type character "X" came back as a put.
C11_TypeCharBecomesPut ==
    /\ last.op = "fetch"
    /\ last.ret.kind = "value"
    /\ \E c \in SeqToSet(last.ret.val[1].contracts) :
          c.symbol.type_char = "X" /\ c.option_type = "put"

(***************************************************************************)
(* heatmap.py.  The floating-point columns (moneyness, the percent values) *)
(* are exact fractions; every Y-value and every cell is such a fraction.   *)
(***************************************************************************)
\* The columns of the table _build_dataframe makes of a non-empty list.
FrameColumns ==
    {"symbol", "expiration", "dte", "strike", "moneyness", "option_type",
     "open_interest", "volume", "delta", "bid", "ask", "last_price", "iv"}

\* pd.DataFrame(records): a table of rows; of an empty list, a table without
\* columns.
DataFrame(records) ==
    [columns |-> IF records = <<>> THEN {} ELSE FrameColumns, rows |-> records]

\* LiquidityHeatmap._build_dataframe: one row per contract, or the
\* ZeroDivisionError of the moneyness of a snapshot whose price is 0.
BuildDataframe(chain_data, today) ==
    IF chain_data.contracts # <<>> /\ chain_data.underlying_price = 0
    THEN Raise("ZeroDivisionError")
    ELSE Value(DataFrame(
        [i \in 1..Len(chain_data.contracts) |->
            LET contract == chain_data.contracts[i]
            IN [symbol |-> contract.symbol,
                expiration |-> contract.expiration_date,
                dte |-> DateOf(contract.expiration_date) - today,
                strike |-> contract.strike_price,
                moneyness |-> Frac(contract.strike_price, chain_data.underlying_price),
                option_type |-> contract.option_type,
                open_interest |-> contract.open_interest,
                volume |-> contract.volume,
                delta |-> contract.delta,
                bid |-> contract.bid,
                ask |-> contract.ask,
                last_price |-> contract.last_price,
                iv |-> contract.implied_volatility]]))

\* df.empty: no rows or no columns.
Empty(df) == df.rows = <<>> \/ df.columns = {}

\* Y-values whose missing delta is filled with 1.
GetYValues_FillsOne(df, mode) ==
    [i \in 1..Len(df.rows) |->
        IF mode = "strike" THEN Num(df.rows[i].strike)
        ELSE IF mode = "moneyness" THEN df.rows[i].moneyness
        ELSE IF df.rows[i].delta = None THEN Num(1) ELSE Num(df.rows[i].delta[1])]

\* LiquidityHeatmap._get_y_values, row by row.
GetYValues(df, mode) ==
    [i \in 1..Len(df.rows) |->
        IF mode = "strike" THEN Num(df.rows[i].strike)
        ELSE IF mode = "moneyness" THEN df.rows[i].moneyness
        ELSE IF df.rows[i].delta = None THEN Num(0) ELSE Num(df.rows[i].delta[1])]

\* The metric column a value mode reads.
Metric(row, mode) ==
    IF mode \in {"oi_absolute", "oi_percent"} THEN row.open_interest ELSE row.volume

\* Totals grouped by strike instead of dte.
DteTotals_ByStrike(df, mode) ==
    [i \in 1..Len(df.rows) |->
        Sum([k \in 1..Len(df.rows) |->
                IF df.rows[k].strike = df.rows[i].strike THEN Metric(df.rows[k], mode)
                ELSE 0])]

\* df.groupby("dte")[metric].transform("sum"): for each row, the sum of the
\* metric over the rows of the table with the same dte.
DteTotals(df, mode) ==
    [i \in 1..Len(df.rows) |->
        Sum([k \in 1..Len(df.rows) |->
                IF df.rows[k].dte = df.rows[i].dte THEN Metric(df.rows[k], mode)
                ELSE 0])]

\* Series.replace(0, 1)
Replace01(x) == IF x = 0 THEN 1 ELSE x

\* Percent values taken of the total of the whole table instead of the total
\* of the row's DTE.
GetZValues_TableTotal(df, mode) ==
    IF mode \in {"oi_absolute", "volume_absolute"}
    THEN [i \in 1..Len(df.rows) |-> Num(Metric(df.rows[i], mode))]
    ELSE LET total == Sum([k \in 1..Len(df.rows) |-> Metric(df.rows[k], mode)])
         IN [i \in 1..Len(df.rows) |->
                FracMul(FracDiv(Num(Metric(df.rows[i], mode)), Num(Replace01(total))),
                        Num(100))]

\* LiquidityHeatmap._get_z_values, row by row.
GetZValues(df, mode) ==
    IF mode \in {"oi_absolute", "volume_absolute"}
    THEN [i \in 1..Len(df.rows) |-> Num(Metric(df.rows[i], mode))]
    ELSE LET dte_totals == DteTotals(df, mode)
         IN [i \in 1..Len(df.rows) |->
                FracMul(FracDiv(Num(Metric(df.rows[i], mode)),
                                Num(Replace01(dte_totals[i]))),
                        Num(100))]

\* A pivot without fill value: a cell without rows is left absent.
PivotTable_NoFill(df, y_value, z_value) ==
    LET rows == 1..Len(df.rows)
        index == FracSortAsc({y_value[i] : i \in rows})
        columns == IntSortAsc({df.rows[i].dte : i \in rows})
        Group(y, dte) == SelectSeq([i \in rows |-> i],
                                   LAMBDA i : y_value[i] = y /\ df.rows[i].dte = dte)
    IN [index |-> index,
        columns |-> columns,
        values |-> [a \in 1..Len(index) |-> [b \in 1..Len(columns) |->
                      LET group == Group(index[a], columns[b])
                      IN IF group = <<>> THEN None
                         ELSE FracSum([k \in 1..Len(group) |-> z_value[group[k]]])]]]

\* A pivot whose row keys come in the order of the table (sort=False).
PivotTable_Unsorted(df, y_value, z_value) ==
    LET rows == 1..Len(df.rows)
        first == SelectSeq([i \in rows |-> i],
                           LAMBDA i : \A k \in 1..(i - 1) : y_value[k] # y_value[i])
        index == [a \in 1..Len(first) |-> y_value[first[a]]]
        columns == IntSortAsc({df.rows[i].dte : i \in rows})
        Group(y, dte) == SelectSeq([i \in rows |-> i],
                                   LAMBDA i : y_value[i] = y /\ df.rows[i].dte = dte)
    IN [index |-> index,
        columns |-> columns,
        values |-> [a \in 1..Len(index) |-> [b \in 1..Len(columns) |->
                      LET group == Group(index[a], columns[b])
                      IN IF group = <<>> THEN Num(0)
                         ELSE FracSum([k \in 1..Len(group) |-> z_value[group[k]]])]]]

\* A pivot that keeps the last value of a group instead of the sum.
PivotTable_KeepsLast(df, y_value, z_value) ==
    LET rows == 1..Len(df.rows)
        index == FracSortAsc({y_value[i] : i \in rows})
        columns == IntSortAsc({df.rows[i].dte : i \in rows})
        Group(y, dte) == SelectSeq([i \in rows |-> i],
                                   LAMBDA i : y_value[i] = y /\ df.rows[i].dte = dte)
    IN [index |-> index,
        columns |-> columns,
        values |-> [a \in 1..Len(index) |-> [b \in 1..Len(columns) |->
                      LET group == Group(index[a], columns[b])
                      IN IF group = <<>> THEN Num(0)
                         ELSE z_value[group[Len(group)]]]]]

\* df.pivot_table(values="z_value", index="y_value", columns="dte",
\* aggfunc="sum", fill_value=0) then sort_index: the row keys, the column keys
\* and the matrix of the sums, a cell without rows holding the fill value.
PivotTable(df, y_value, z_value) ==
    LET rows == 1..Len(df.rows)
        index == FracSortAsc({y_value[i] : i \in rows})
        columns == IntSortAsc({df.rows[i].dte : i \in rows})
        Group(y, dte) == SelectSeq([i \in rows |-> i],
                                   LAMBDA i : y_value[i] = y /\ df.rows[i].dte = dte)
    IN [index |-> index,
        columns |-> columns,
        values |-> [a \in 1..Len(index) |-> [b \in 1..Len(columns) |->
                      LET group == Group(index[a], columns[b])
                      IN IF group = <<>> THEN Num(0)
                         ELSE FracSum([k \in 1..Len(group) |-> z_value[group[k]]])]]]

\* The figure returned when no row is left: no trace, one annotation.
NoDataFigure ==
    [traces |-> <<>>,
     annotations |-> <<"No data available for the specified filters">>]

\* The annotations of the cells above 0, when the config asks for them.
CellAnnotations(pivot_df, config) ==
    IF ~config.show_annotations THEN <<>>
    ELSE LET cells == [k \in 1..(Len(pivot_df.index) * Len(pivot_df.columns)) |->
                          <<((k - 1) \div Len(pivot_df.columns)) + 1,
                            ((k - 1) % Len(pivot_df.columns)) + 1>>]
             marked == SelectSeq(cells, LAMBDA c :
                          FracLt(Num(0), pivot_df.values[c[1]][c[2]]))
         IN [k \in 1..Len(marked) |->
                [x |-> pivot_df.columns[marked[k][2]],
                 y |-> pivot_df.index[marked[k][1]],
                 text |-> pivot_df.values[marked[k][1]][marked[k][2]]]]

\* Filters whose DTE mask is inverted: the rows outside the bounds are kept.
ApplyFilters_DteOutside(df, config) ==
    IF config.option_type # "both" /\ "option_type" \notin df.columns
    THEN Raise("KeyError")
    ELSE LET by_type ==
                 IF config.option_type # "both"
                 THEN [df EXCEPT !.rows = SelectSeq(df.rows, LAMBDA r :
                                             r.option_type = config.option_type)]
                 ELSE df
         IN IF "dte" \notin by_type.columns THEN Raise("KeyError")
            ELSE LET by_dte ==
                         [by_type EXCEPT !.rows = SelectSeq(by_type.rows, LAMBDA r :
                             r.dte <= config.min_dte \/ r.dte >= config.max_dte)]
                 IN IF config.y_axis_mode # "moneyness" THEN Value(by_dte)
                    ELSE Value([by_dte EXCEPT !.rows = SelectSeq(by_dte.rows, LAMBDA r :
                                   /\ FracLe(config.min_moneyness, r.moneyness)
                                   /\ FracLe(r.moneyness, config.max_moneyness))])

\* The filters of create_heatmap and create_3d_surface, applied to the table:
\* the table left, or the KeyError of a column the table does not have.
ApplyFilters(df, config) ==
    IF config.option_type # "both" /\ "option_type" \notin df.columns
    THEN Raise("KeyError")
    ELSE LET by_type ==
                 IF config.option_type # "both"
                 THEN [df EXCEPT !.rows = SelectSeq(df.rows, LAMBDA r :
                                             r.option_type = config.option_type)]
                 ELSE df
         IN IF "dte" \notin by_type.columns THEN Raise("KeyError")
            ELSE LET by_dte ==
                         [by_type EXCEPT !.rows = SelectSeq(by_type.rows, LAMBDA r :
                             r.dte >= config.min_dte /\ r.dte <= config.max_dte)]
                 IN IF config.y_axis_mode # "moneyness" THEN Value(by_dte)
                    ELSE Value([by_dte EXCEPT !.rows = SelectSeq(by_dte.rows, LAMBDA r :
                                   /\ FracLe(config.min_moneyness, r.moneyness)
                                   /\ FracLe(r.moneyness, config.max_moneyness))])

\* LiquidityHeatmap.create_heatmap on the table of the object: the figure
\* returned or the exception raised.
CreateHeatmapResult(df, config) ==
    LET filtered == ApplyFilters(df, config)
    IN IF filtered.kind = "raise" THEN filtered
       ELSE IF Empty(filtered.val[1]) THEN Value(NoDataFigure)
       ELSE LET y_value == GetYValues(filtered.val[1], config.y_axis_mode)
                z_value == GetZValues(filtered.val[1], config.value_mode)
                pivot_df == PivotTable(filtered.val[1], y_value, z_value)
            IN Value([traces |-> <<[type |-> "heatmap", z |-> pivot_df.values,
                                   x |-> pivot_df.columns, y |-> pivot_df.index]>>,
                      annotations |-> CellAnnotations(pivot_df, config)])

\* LiquidityHeatmap.create_3d_surface: the same table under a surface trace.
Create3dSurfaceResult(df, config) ==
    LET filtered == ApplyFilters(df, config)
    IN IF filtered.kind = "raise" THEN filtered
       ELSE IF Empty(filtered.val[1]) THEN Value(NoDataFigure)
       ELSE LET y_value == GetYValues(filtered.val[1], config.y_axis_mode)
                z_value == GetZValues(filtered.val[1], config.value_mode)
                pivot_df == PivotTable(filtered.val[1], y_value, z_value)
            IN Value([traces |-> <<[type |-> "surface", z |-> pivot_df.values,
                                   x |-> pivot_df.columns, y |-> pivot_df.index]>>,
                      annotations |-> <<>>])

\* The filters of create_split_heatmap: DTE and, with the moneyness axis,
\* moneyness.  The option type of the config is not read.
SplitFilters(df, config) ==
    IF "dte" \notin df.columns THEN Raise("KeyError")
    ELSE LET by_dte ==
                 [df EXCEPT !.rows = SelectSeq(df.rows, LAMBDA r :
                     r.dte >= config.min_dte /\ r.dte <= config.max_dte)]
         IN IF config.y_axis_mode # "moneyness" THEN Value(by_dte)
            ELSE Value([by_dte EXCEPT !.rows = SelectSeq(by_dte.rows, LAMBDA r :
                           /\ FracLe(config.min_moneyness, r.moneyness)
                           /\ FracLe(r.moneyness, config.max_moneyness))])

\* The body of the loop of create_split_heatmap for one subset: no trace for an
\* empty subset, else the heatmap trace of its pivot in column col.
PanelTraces(subset_df, config, col) ==
    IF Empty(subset_df) THEN <<>>
    ELSE LET y_value == GetYValues(subset_df, config.y_axis_mode)
             z_value == GetZValues(subset_df, config.value_mode)
             pivot_df == PivotTable(subset_df, y_value, z_value)
         IN <<[type |-> "heatmap", z |-> pivot_df.values, x |-> pivot_df.columns,
               y |-> pivot_df.index, col |-> col]>>

\* A split view whose values are computed before the table is split: the
\* percent totals of a DTE are shared by the two panels.
CreateSplitHeatmapResult_SharedTotals(df, config) ==
    LET filtered == SplitFilters(df, config)
    IN IF filtered.kind = "raise" THEN filtered
       ELSE IF Empty(filtered.val[1]) THEN Value(NoDataFigure)
       ELSE LET rows == filtered.val[1].rows
                y_value == GetYValues(filtered.val[1], config.y_axis_mode)
                z_value == GetZValues(filtered.val[1], config.value_mode)
                Panel(otype, col) ==
                    LET keep == SelectSeq([i \in 1..Len(rows) |-> i],
                                          LAMBDA i : rows[i].option_type = otype)
                        subset_df == [filtered.val[1] EXCEPT
                                         !.rows = [k \in 1..Len(keep) |-> rows[keep[k]]]]
                        pivot_df == PivotTable(subset_df,
                                               [k \in 1..Len(keep) |-> y_value[keep[k]]],
                                               [k \in 1..Len(keep) |-> z_value[keep[k]]])
                    IN IF keep = <<>> THEN <<>>
                       ELSE <<[type |-> "heatmap", z |-> pivot_df.values,
                               x |-> pivot_df.columns, y |-> pivot_df.index,
                               col |-> col]>>
            IN Value([traces |-> Panel("call", 1) \o Panel("put", 2),
                      annotations |-> <<"CALLS", "PUTS">>])

\* LiquidityHeatmap.create_split_heatmap: the rows left by the filters are split
\* into calls and puts, and each non-empty subset gives the trace of its own
\* pivot; the subplot titles are the annotations of the figure.
CreateSplitHeatmapResult(df, config) ==
    LET filtered == SplitFilters(df, config)
    IN IF filtered.kind = "raise" THEN filtered
       ELSE IF Empty(filtered.val[1]) THEN Value(NoDataFigure)
       ELSE LET calls_df == [filtered.val[1] EXCEPT !.rows = SelectSeq(@, LAMBDA r :
                                                        r.option_type = "call")]
                puts_df == [filtered.val[1] EXCEPT !.rows = SelectSeq(@, LAMBDA r :
                                                       r.option_type = "put")]
            IN Value([traces |-> PanelTraces(calls_df, config, 1)
                                 \o PanelTraces(puts_df, config, 2),
                      annotations |-> <<"CALLS", "PUTS">>])

\* LiquidityHeatmap.get_liquidity_summary on the table of the object: the
\* dictionary, the KeyError of a table without columns, or the ValueError of
\* int() on the minimum of no rows.
GetLiquiditySummaryResult(chain_data, df) ==
    IF "open_interest" \notin df.columns THEN Raise("KeyError")
    ELSE IF df.rows = <<>> THEN Raise("ValueError")
    ELSE LET rows == df.rows
             calls == SelectSeq(rows, LAMBDA r : r.option_type = "call")
             puts == SelectSeq(rows, LAMBDA r : r.option_type = "put")
             OpenInterest(rs) == Sum([k \in 1..Len(rs) |-> rs[k].open_interest])
             Volume(rs) == Sum([k \in 1..Len(rs) |-> rs[k].volume])
             dte == {rows[k].dte : k \in 1..Len(rows)}
             moneyness == {rows[k].moneyness : k \in 1..Len(rows)}
         IN Value([ticker |-> chain_data.underlying_symbol,
                   underlying_price |-> chain_data.underlying_price,
                   fetch_timestamp |-> Isoformat(chain_data.fetch_timestamp),
                   total_contracts |-> Len(rows),
                   total_open_interest |-> OpenInterest(rows),
                   total_volume |-> Volume(rows),
                   calls |-> [count |-> Len(calls),
                              open_interest |-> OpenInterest(calls),
                              volume |-> Volume(calls)],
                   puts |-> [count |-> Len(puts),
                             open_interest |-> OpenInterest(puts),
                             volume |-> Volume(puts)],
                   expirations |-> Cardinality({rows[k].expiration : k \in 1..Len(rows)}),
                   strikes |-> Cardinality({rows[k].strike : k \in 1..Len(rows)}),
                   dte_range |->
                       [min |-> CHOOSE x \in dte : \A y \in dte : x <= y,
                        max |-> CHOOSE x \in dte : \A y \in dte : y <= x],
                   moneyness_range |->
                       [min |-> CHOOSE x \in moneyness :
                                   \A y \in moneyness : FracLe(x, y),
                        max |-> CHOOSE x \in moneyness :
                                   \A y \in moneyness : FracLe(y, x)]])

\* HeatmapConfig
HeatmapConfig(y_axis_mode, value_mode, option_type, min_dte, max_dte, min_moneyness, max_moneyness, show_annotations) ==
    [y_axis_mode |-> y_axis_mode, value_mode |-> value_mode,
     option_type |-> option_type, min_dte |-> min_dte, max_dte |-> max_dte,
     min_moneyness |-> min_moneyness, max_moneyness |-> max_moneyness,
     show_annotations |-> show_annotations]

YAxisModes == {"strike", "moneyness", "delta"}
ValueModes == {"oi_absolute", "oi_percent", "volume_absolute", "volume_percent"}

(***************************************************************************)
(* The snapshots and configs handed to the grid builder.                   *)
(***************************************************************************)
GridContract(otype, day, strike, oi, vol, delta) ==
    OptionContract(Occ("SPY", day, IF otype = "call" THEN "C" ELSE "P", strike * 1000),
                   "SPY", Date(day), strike, otype, oi, vol, 1, 2, 1,
                   delta, None, None, None, None)

\* Two strikes at one expiration, the same strike with both types, a column
\* whose metrics are all 0, strikes at the default moneyness bounds.
GridContracts ==
    {GridContract("call", 10, 100, 50, 7, Some(5)),
     GridContract("call", 10, 105, 150, 0, None),
     GridContract("put", 20, 100, 25, 0, Some(0)),
     GridContract("put", 10, 100, 0, 2, None),
     GridContract("call", 20, 80, 0, 0, Some(-5)),
     GridContract("put", 30, 120, 10, 2, Some(5))}

\* The three contracts of the spec's end-to-end example.
ExampleContracts ==
    <<GridContract("call", 10, 100, 50, 7, Some(5)),
      GridContract("call", 10, 105, 150, 0, None),
      GridContract("put", 20, 100, 25, 0, Some(0))>>

GridChains ==
    {OptionsChainData("SPY", 100, T(0, 0), cs) :
        cs \in SeqsUpTo(GridContracts, MaxContracts) \cup
               {ExampleContracts,
                <<GridContract("call", 10, 100, 50, 7, Some(5)),
                  GridContract("put", 10, 100, 0, 2, None),
                  GridContract("put", 30, 120, 10, 2, Some(5))>>,
                <<GridContract("call", 10, 100, 50, 7, Some(5)),
                  GridContract("call", 10, 105, 150, 0, None),
                  GridContract("call", 20, 80, 0, 0, Some(-5))>>,
                \* one expiration: two contracts without delta, one of delta 0
                <<GridContract("call", 10, 105, 150, 0, None),
                  GridContract("call", 10, 110, 5, 1, Some(0)),
                  GridContract("put", 10, 100, 0, 2, None)>>}}

DteBounds == {<<0, 90>>, <<10, 19>>}
MoneynessBounds == {<<Frac(4, 5), Frac(6, 5)>>, <<Num(1), Frac(21, 20)>>}

HeatmapConfigs ==
    {HeatmapConfig(y, v, o, d[1], d[2], m[1], m[2], a) :
        y \in YAxisModes, v \in ValueModes, o \in {"call", "put", "both"},
        d \in DteBounds, m \in MoneynessBounds, a \in {FALSE}}
    \cup {HeatmapConfig("strike", v, "both", 0, 90, Frac(4, 5), Frac(6, 5), TRUE) :
            v \in {"oi_absolute", "oi_percent"}}

SurfaceConfigs == {config \in HeatmapConfigs : config.option_type = "both"}

\* The split view under every axis and value mode, without a type filter and
\* with the filter set to calls.
SplitConfigs ==
    {config \in HeatmapConfigs :
        config.option_type # "put" /\ ~config.show_annotations}

(***************************************************************************)
(* The operations of LiquidityHeatmap, as actions.  An object makes one     *)
(* figure, as in main.                                                     *)
(***************************************************************************)
\* The df property: the table built on first use and kept.
Df(h, today) ==
    IF h.df # None THEN Value(h.df[1]) ELSE BuildDataframe(h.chain_data, today)

CreateHeatmap(config) ==
    /\ heatmap # None
    /\ last.op = "none"
    /\ \E table \in {Df(heatmap[1], DateOf(now))} :
          /\ heatmap' = IF table.kind = "raise" THEN heatmap
                        ELSE Some([heatmap[1] EXCEPT !.df = table.val])
          /\ last' = [op |-> "create_heatmap", config |-> config,
                      chain_data |-> heatmap[1].chain_data, df |-> table,
                      ret |-> IF table.kind = "raise" THEN table
                              ELSE CreateHeatmapResult(table.val[1], config)]
    /\ UNCHANGED <<fs, now, auto_cache, writes>>

Create3dSurface(config) ==
    /\ heatmap # None
    /\ last.op = "none"
    /\ \E table \in {Df(heatmap[1], DateOf(now))} :
          /\ heatmap' = IF table.kind = "raise" THEN heatmap
                        ELSE Some([heatmap[1] EXCEPT !.df = table.val])
          /\ last' = [op |-> "create_3d_surface", config |-> config,
                      chain_data |-> heatmap[1].chain_data, df |-> table,
                      ret |-> IF table.kind = "raise" THEN table
                              ELSE Create3dSurfaceResult(table.val[1], config)]
    /\ UNCHANGED <<fs, now, auto_cache, writes>>

CreateSplitHeatmap(config) ==
    /\ heatmap # None
    /\ last.op = "none"
    /\ \E table \in {Df(heatmap[1], DateOf(now))} :
          /\ heatmap' = IF table.kind = "raise" THEN heatmap
                        ELSE Some([heatmap[1] EXCEPT !.df = table.val])
          /\ last' = [op |-> "create_split_heatmap", config |-> config,
                      chain_data |-> heatmap[1].chain_data, df |-> table,
                      ret |-> IF table.kind = "raise" THEN table
                              ELSE CreateSplitHeatmapResult(table.val[1], config)]
    /\ UNCHANGED <<fs, now, auto_cache, writes>>

GetLiquiditySummary ==
    /\ heatmap # None
    /\ last.op = "none"
    /\ \E table \in {Df(heatmap[1], DateOf(now))} :
          /\ heatmap' = IF table.kind = "raise" THEN heatmap
                        ELSE Some([heatmap[1] EXCEPT !.df = table.val])
          /\ last' = [op |-> "get_liquidity_summary",
                      chain_data |-> heatmap[1].chain_data, df |-> table,
                      ret |-> IF table.kind = "raise" THEN table
                              ELSE GetLiquiditySummaryResult(heatmap[1].chain_data,
                                                             table.val[1])]
    /\ UNCHANGED <<fs, now, auto_cache, writes>>

\* LiquidityHeatmap.__init__ on a snapshot, today or the day after.
InitHeatmap ==
    /\ fs = <<>>
    /\ now \in {Date(0), Date(1)}
    /\ auto_cache = TRUE
    /\ writes = 0
    /\ last = [op |-> "none"]
    /\ \E chain \in GridChains : heatmap = Some([chain_data |-> chain, df |-> None])

NextHeatmap ==
    \/ \E config \in HeatmapConfigs : CreateHeatmap(config)
    \/ \E config \in SurfaceConfigs : Create3dSurface(config)
    \/ \E config \in SplitConfigs : CreateSplitHeatmap(config)
    \/ GetLiquiditySummary

SpecHeatmap == InitHeatmap /\ [][NextHeatmap]_vars

(***************************************************************************)
(* cli.py and the enumerations of models.py.  A run of the command is one  *)
(* call of main: it returns an exit code, or an exception leaves it.       *)
(***************************************************************************)
MaxRuns == 1

\* The default of max_age_minutes, which main leaves as it is.
DefaultMaxAgeMinutes == 15

\* The members of the enumerations and their values.
YAxisMode == [STRIKE |-> "strike", MONEYNESS |-> "moneyness", DELTA |-> "delta"]
ValueMode ==
    [OPEN_INTEREST_ABSOLUTE |-> "oi_absolute", OPEN_INTEREST_PERCENT |-> "oi_percent",
     VOLUME_ABSOLUTE |-> "volume_absolute", VOLUME_PERCENT |-> "volume_percent"]

\* The entries of the two dictionaries main builds: <<key, member read>>.
YAxisMapEntries ==
    <<<<"strike", "STRIKE">>, <<"moneyness", "MONEYNESS">>, <<"delta", "DELTA">>>>
ValueMapEntries ==
    <<<<"oi_absolute", "OPEN_INTEREST_ABSOLUTE">>,
      <<"oi_percent", "OPEN_INTEREST_PERCENT">>,
      <<"volume_absolute", "VOLUME_ABSOLUTE">>,
      <<"volume_percent", "VOLUME_PERCENT">>,
      <<"spread_absolute", "SPREAD_ABSOLUTE">>,
      <<"spread_percent", "SPREAD_PERCENT">>,
      <<"spread_per_delta", "SPREAD_PER_DELTA">>>>

\* A dictionary display whose values are members of an enumeration: building
\* it reads every member, and reading one the class does not have raises
\* AttributeError.
EnumMap(enum, entries) ==
    IF \E k \in 1..Len(entries) : entries[k][2] \notin DOMAIN enum
    THEN Raise("AttributeError")
    ELSE Value([key \in {entries[k][1] : k \in 1..Len(entries)} |->
                   enum[entries[CHOOSE k \in 1..Len(entries) : entries[k][1] = key][2]]])

\* The arguments parse_args accepts, the bounds at their defaults.
MainArgs(ticker, y_axis, value, option_type, plot_type, summary, use_cached, no_cache) ==
    [option_type |-> option_type, ticker |-> ticker, y_axis |-> y_axis,
     value |-> value, plot_type |-> plot_type, summary |-> summary,
     use_cached |-> use_cached, no_cache |-> no_cache,
     dte_min |-> 0, dte_max |-> 90,
     moneyness_min |-> Frac(4, 5), moneyness_max |-> Frac(6, 5)]

\* main from the construction of LiquidityHeatmap on: the summary when asked
\* for, the two dictionaries, the config, the figure of the plot type and its
\* export.  export_ok tells whether the charting library writes the file.
Visualize(chain_data, clock, args, export_ok) ==
    LET table == BuildDataframe(chain_data, DateOf(clock))
        summary == IF table.kind = "raise" THEN table
                   ELSE GetLiquiditySummaryResult(chain_data, table.val[1])
        y_axis_map == EnumMap(YAxisMode, YAxisMapEntries)
        value_map == EnumMap(ValueMode, ValueMapEntries)
    IN IF args.summary /\ summary.kind = "raise"
       THEN [ret |-> summary, stderr |-> <<>>]
       ELSE IF y_axis_map.kind = "raise" THEN [ret |-> y_axis_map, stderr |-> <<>>]
       ELSE IF value_map.kind = "raise" THEN [ret |-> value_map, stderr |-> <<>>]
       ELSE LET config == HeatmapConfig(y_axis_map.val[1][args.y_axis],
                                        value_map.val[1][args.value],
                                        args.option_type, args.dte_min, args.dte_max,
                                        args.moneyness_min, args.moneyness_max, FALSE)
                fig == IF table.kind = "raise" THEN table
                       ELSE IF args.plot_type = "heatmap"
                       THEN CreateHeatmapResult(table.val[1], config)
                       ELSE IF args.plot_type = "3d"
                       THEN Create3dSurfaceResult(table.val[1], config)
                       ELSE CreateSplitHeatmapResult(table.val[1], config)
            IN IF args.plot_type \notin {"heatmap", "3d", "split"}
               THEN [ret |-> Value(1), stderr |-> <<"Unknown plot type: ">>]
               ELSE IF fig.kind = "raise" THEN [ret |-> fig, stderr |-> <<>>]
               ELSE IF ~export_ok THEN [ret |-> Raise("OSError"), stderr |-> <<>>]
               ELSE [ret |-> Value(0), stderr |-> <<>>]

\* main: the exit code returned or the exception that leaves it, what it wrote
\* to the diagnostic stream, the cache directory afterwards, and what the
\* fetch gave (None when no fetcher was built).  The first handler catches
\* ValueError and its subclass JSONDecodeError, the second every other
\* exception of the constructor and the fetch.
MainResult(f, clock, args, environ, quote, n, export_ok) ==
    LET fetcher == Construct(f, None, None, TRUE, ~args.no_cache, environ)
        fetch_kwargs == FetchKwargs(args.dte_min, args.dte_max, args.option_type,
                                    None, None,
                                    Some(<<args.moneyness_min, args.moneyness_max>>))
        option_symbols == ListedFor(args.ticker, fetch_kwargs, quote, clock, n)
        fetched == IF args.use_cached
                   THEN FetchCachedOrLiveResult(f, clock, ~args.no_cache, args.ticker,
                                                DefaultMaxAgeMinutes, fetch_kwargs,
                                                quote, option_symbols,
                                                Venue(option_symbols), {})
                   ELSE FetchResult(f, clock, ~args.no_cache, args.ticker,
                                    fetch_kwargs, quote, option_symbols,
                                    Venue(option_symbols), {})
    IN IF fetcher.ret.kind = "raise"
       THEN [ret |-> Value(1), stderr |-> <<"Error: ">>, fs |-> f, fetched |-> None]
       ELSE IF fetched.ret.kind = "raise"
       THEN [ret |-> Value(1),
             stderr |-> <<IF fetched.ret.val[1] \in {"ValueError", "JSONDecodeError"}
                          THEN "Error: " ELSE "Error fetching data: ">>,
             fs |-> fetched.fs, fetched |-> Some(fetched.ret)]
       ELSE [fs |-> fetched.fs, fetched |-> Some(fetched.ret)] @@
            Visualize(fetched.ret.val[1], clock, args, export_ok)

\* A run of the command.
Main(args, environ, quote, n, export_ok) ==
    /\ writes < MaxRuns
    /\ \E r \in {MainResult(fs, now, args, environ, quote, n, export_ok)} :
          /\ fs' = r.fs
          /\ last' = [op |-> "main", args |-> args, environ |-> environ,
                      quote |-> quote, listing |-> Listing(Upper(args.ticker), n),
                      export_ok |-> export_ok, fetched |-> r.fetched,
                      ret |-> r.ret, stderr |-> r.stderr]
    /\ writes' = writes + 1
    /\ UNCHANGED <<now, auto_cache, heatmap>>

\* Before a run: an empty cache directory or the entry of an earlier run, which
\* is a second or fifteen minutes old.
InitMain ==
    /\ fs \in {<<>>, SaveFs(<<>>, OptionsChainData("SPY", 100, T(0, 0),
                                   <<SampleCall("SPY"), SamplePut("SPY")>>))}
    /\ now \in {T(1, 0), T(DefaultMaxAgeMinutes * SecondsPerMinute, 0)}
    /\ auto_cache = TRUE
    /\ writes = 0
    /\ heatmap = None
    /\ last = [op |-> "none"]

\* The runs: every y-axis mode, every value mode and every plot style of the
\* command, with and without the summary, the cache and the fresh-cache flag;
\* each meets credentials in the environment or none, the quote of the
\* underlying, the number of contracts the brokerage lists, and an export that
\* succeeds or fails.
NextMain ==
    \E c \in ({"strike", "moneyness", "delta"} \X {"oi_absolute"} \X {"heatmap"})
              \cup ({"strike"} \X {e[1] : e \in SeqToSet(ValueMapEntries)} \X {"heatmap"})
              \cup ({"strike"} \X {"oi_absolute"} \X {"heatmap", "3d", "split"}),
       summary \in BOOLEAN, use_cached \in BOOLEAN, no_cache \in BOOLEAN,
       s \in {<<Some("k"), GoodQuote, 2, TRUE>>,
              <<Some("k"), GoodQuote, 0, TRUE>>,
              <<Some("k"), GoodQuote, 2, FALSE>>,
              <<Some("k"), None, 0, TRUE>>,
              <<Some("k"), Some([bid_price |-> None, ask_price |-> None]), 0, TRUE>>,
              <<None, GoodQuote, 2, TRUE>>} :
        Main(MainArgs("spy", c[1], c[2], "both", c[3], summary, use_cached, no_cache),
             [ALPACA_API_KEY |-> s[1], ALPACA_SECRET_KEY |-> Some("s"),
              ALPACA_PAPER |-> None],
             s[2], s[3], s[4])

SpecMain == InitMain /\ [][NextMain]_vars

(***************************************************************************)
(* Properties of the grid builder, stated on the contracts of the          *)
(* snapshot.                                                               *)
(***************************************************************************)
Builders == {"create_heatmap", "create_3d_surface"}

\* Days to expiration of a contract on the day of the build.
DteOf(c) == DateOf(c.expiration_date) - DateOf(now)
MoneynessOf(c, chain) == Frac(c.strike_price, chain.underlying_price)

\* A contract passes the filters of a config.
Survives(c, chain, config) ==
    /\ config.option_type # "both" => c.option_type = config.option_type
    /\ config.min_dte <= DteOf(c) /\ DteOf(c) <= config.max_dte
    /\ config.y_axis_mode = "moneyness" =>
          /\ FracLe(config.min_moneyness, MoneynessOf(c, chain))
          /\ FracLe(MoneynessOf(c, chain), config.max_moneyness)

Survivors(chain, config) ==
    SelectSeq(chain.contracts, LAMBDA c : Survives(c, chain, config))

\* The Y-value of a contract.
YOf(c, chain, config) ==
    CASE config.y_axis_mode = "strike" -> Num(c.strike_price)
      [] config.y_axis_mode = "moneyness" -> MoneynessOf(c, chain)
      [] config.y_axis_mode = "delta" -> IF c.delta = None THEN Num(0) ELSE Num(c.delta[1])

MetricOf(c, config) ==
    IF config.value_mode \in {"oi_absolute", "oi_percent"} THEN c.open_interest
    ELSE c.volume

IsPercent(config) == config.value_mode \in {"oi_percent", "volume_percent"}

\* The sum of the metric over the contracts of a sequence at one DTE.
DteTotal(cs, dte, config) ==
    Sum([k \in 1..Len(cs) |-> IF DteOf(cs[k]) = dte THEN MetricOf(cs[k], config) ELSE 0])

\* The value column of a contract among the surviving ones.
ValueOf(c, cs, config) ==
    IF ~IsPercent(config) THEN Num(MetricOf(c, config))
    ELSE LET total == DteTotal(cs, DteOf(c), config)
         IN IF total = 0 THEN Num(0) ELSE Frac(MetricOf(c, config) * 100, total)

\* The sum of the value column over the contracts of a sequence at (y, dte).
CellOf(cs, chain, config, y, dte) ==
    FracSum([k \in 1..Len(cs) |->
                IF YOf(cs[k], chain, config) = y /\ DteOf(cs[k]) = dte
                THEN ValueOf(cs[k], cs, config) ELSE Num(0)])

\* The result is a grid: a figure with a trace.
IsGrid(ret) == ret.kind = "value" /\ ret.val[1].traces # <<>>
\* The result is the empty result: the figure without trace.
IsNoData(ret) == ret.kind = "value" /\ ret.val[1] = NoDataFigure
GridOf(ret) == ret.val[1].traces[1]

FracStrictlyAscending(s) == \A i \in 1..(Len(s) - 1) : FracLt(s[i], s[i + 1])
IntStrictlyAscending(s) == \A i \in 1..(Len(s) - 1) : s[i] < s[i + 1]

\* C14: with at least one surviving contract, the row keys are the distinct
\* Y-values of the surviving contracts, ascending, the column keys their
\* distinct DTE values, ascending, and each cell is the sum of the value column
\* over the surviving contracts of that (Y, DTE), 0 when there are none.
C14_GridIsGroupedSum ==
    (last.op \in Builders /\ Survivors(last.chain_data, last.config) # <<>>) =>
        LET cs == Survivors(last.chain_data, last.config)
            grid == GridOf(last.ret)
        IN /\ IsGrid(last.ret)
           /\ FracStrictlyAscending(grid.y)
           /\ SeqToSet(grid.y) = {YOf(c, last.chain_data, last.config) : c \in SeqToSet(cs)}
           /\ IntStrictlyAscending(grid.x)
           /\ SeqToSet(grid.x) = {DteOf(c) : c \in SeqToSet(cs)}
           /\ Len(grid.z) = Len(grid.y)
           /\ \A a \in 1..Len(grid.y) :
                 /\ Len(grid.z[a]) = Len(grid.x)
                 /\ \A b \in 1..Len(grid.x) :
                       grid.z[a][b] =
                          CellOf(cs, last.chain_data, last.config, grid.y[a], grid.x[b])

\* A grid of two rows and two columns with a cell that adds two contracts
\* (volumes 7 and 2) and a cell without contract.
C14_Witness ==
    /\ last.op = "create_heatmap"
    /\ last.config.value_mode = "volume_absolute"
    /\ IsGrid(last.ret)
    /\ GridOf(last.ret).y = <<Num(100), Num(120)>>
    /\ Len(GridOf(last.ret).x) = 2
    /\ GridOf(last.ret).z = <<<<Num(9), Num(0)>>, <<Num(0), Num(2)>>>>

\* The sum of column b of a grid over all its rows.
ColumnSum(grid, b) == FracSum([a \in 1..Len(grid.y) |-> grid.z[a][b]])

\* C15: in the percent modes every DTE column of the grid sums to 100 when a
\* contract at that DTE has a non-zero metric, and to 0 when all have metric 0;
\* the build does not fail in either case.
C15_PercentColumnsSumTo100 ==
    (/\ last.op \in Builders
     /\ IsPercent(last.config)
     /\ Survivors(last.chain_data, last.config) # <<>>) =>
        LET cs == Survivors(last.chain_data, last.config)
            grid == GridOf(last.ret)
        IN /\ IsGrid(last.ret)
           /\ \A b \in 1..Len(grid.x) :
                 ColumnSum(grid, b) =
                    IF \E c \in SeqToSet(cs) :
                          DteOf(c) = grid.x[b] /\ MetricOf(c, last.config) # 0
                    THEN Num(100) ELSE Num(0)

\* A percent grid with a column of 25 and 75 and a column whose only contract
\* has open interest 0.
C15_Witness ==
    /\ last.op = "create_heatmap"
    /\ last.config.value_mode = "oi_percent"
    /\ last.config.y_axis_mode = "strike"
    /\ IsGrid(last.ret)
    /\ GridOf(last.ret).y = <<Num(80), Num(100), Num(105)>>
    /\ GridOf(last.ret).z = <<<<Num(0), Num(0)>>, <<Num(25), Num(0)>>, <<Num(75), Num(0)>>>>

\* A cell holds a number: a fraction with a positive denominator.
IsNumber(cell) == Len(cell) = 2 /\ cell[2] > 0

\* The number of cells of a grid.
CellCount(grid) == Sum([a \in 1..Len(grid.z) |-> Len(grid.z[a])])

\* C16: the grid is dense: it has as many cells as distinct Y-values of the
\* surviving contracts times their distinct DTE values, and every cell holds
\* a number.
C16_GridIsDense ==
    (last.op \in Builders /\ IsGrid(last.ret)) =>
        LET cs == SeqToSet(Survivors(last.chain_data, last.config))
            grid == GridOf(last.ret)
        IN /\ CellCount(grid) =
                 Cardinality({YOf(c, last.chain_data, last.config) : c \in cs})
                    * Cardinality({DteOf(c) : c \in cs})
           /\ \A a \in 1..Len(grid.z) : \A b \in 1..Len(grid.z[a]) :
                 IsNumber(grid.z[a][b])

\* Two surviving contracts at different strikes and expirations: four cells.
C16_Witness ==
    /\ last.op \in Builders
    /\ IsGrid(last.ret)
    /\ Len(Survivors(last.chain_data, last.config)) = 2
    /\ CellCount(GridOf(last.ret)) = 4
    /\ GridOf(last.ret).z[1][2] = Num(0)

\* What a builder returns for the table of an operation under another config.
BuilderResult(op, config) ==
    IF op.op = "create_heatmap" THEN CreateHeatmapResult(op.df.val[1], config)
    ELSE Create3dSurfaceResult(op.df.val[1], config)

\* The sum of all cells of a result; the empty result counts as 0.
GridSum(ret) ==
    IF ~IsGrid(ret) THEN Num(0)
    ELSE FracSum([a \in 1..Len(GridOf(ret).z) |-> FracSum(GridOf(ret).z[a])])

DtePoints == {0, 10, 19, 90}
MoneynessPoints == {Frac(4, 5), Num(1), Frac(21, 20), Frac(6, 5)}

\* The configs that differ from a config by narrower DTE bounds, or by
\* narrower moneyness bounds.
Narrowings(config) ==
    {[config EXCEPT !.min_dte = lo, !.max_dte = hi] :
        <<lo, hi>> \in {d \in DtePoints \X DtePoints :
                          config.min_dte <= d[1] /\ d[1] <= d[2] /\ d[2] <= config.max_dte}}
    \cup
    {[config EXCEPT !.min_moneyness = m[1], !.max_moneyness = m[2]] :
        m \in {d \in MoneynessPoints \X MoneynessPoints :
                 /\ FracLe(config.min_moneyness, d[1]) /\ FracLe(d[1], d[2])
                 /\ FracLe(d[2], config.max_moneyness)}}

\* C17: for a fixed snapshot, date and config, in every value mode, narrowing
\* the DTE bounds or the moneyness bounds never increases the sum of all cells
\* of the grid, the empty result counting as 0.
C17_NarrowingNeverIncreases ==
    (last.op \in Builders /\ last.ret.kind = "value") =>
        \A narrow \in Narrowings(last.config) :
            LET ret == BuilderResult(last, narrow)
            IN ret.kind = "value" /\ FracLe(GridSum(ret), GridSum(last.ret))

\* A percent grid of sum 200 that narrower DTE bounds bring to 100, and
\* narrower moneyness bounds to the empty result.
C17_Witness ==
    /\ last.op = "create_heatmap"
    /\ last.config.y_axis_mode = "moneyness"
    /\ last.config.value_mode = "oi_percent"
    /\ GridSum(last.ret) = Num(200)
    /\ \E narrow \in Narrowings(last.config) :
          /\ narrow.max_dte < last.config.max_dte
          /\ GridSum(BuilderResult(last, narrow)) = Num(100)
    /\ \E narrow \in Narrowings(last.config) :
          /\ FracLt(last.config.min_moneyness, narrow.min_moneyness)
          /\ IsNoData(BuilderResult(last, narrow))

\* C18: when no contract survives the filters, a snapshot of zero contracts
\* included, the builder returns the empty result without raising; and it
\* returns the empty result only then: a grid whose cells are all 0 is a grid.
C18_EmptyResultIffNoSurvivor ==
    last.op \in Builders =>
        /\ last.ret.kind = "value"
        /\ IsNoData(last.ret) <=> Survivors(last.chain_data, last.config) = <<>>
        /\ IsGrid(last.ret) <=> Survivors(last.chain_data, last.config) # <<>>

\* What the code does of C18: the same for a snapshot that holds a contract.
C18_WhenSnapshotHasContracts ==
    (last.op \in Builders /\ last.chain_data.contracts # <<>>) =>
        /\ last.ret.kind = "value"
        /\ IsNoData(last.ret) <=> Survivors(last.chain_data, last.config) = <<>>
        /\ IsGrid(last.ret) <=> Survivors(last.chain_data, last.config) # <<>>

\* The snapshot of zero contracts: the builder raised KeyError.
C18_ZeroContractsRaises ==
    /\ last.op \in Builders
    /\ last.chain_data.contracts = <<>>
    /\ last.ret = Raise("KeyError")

\* A grid whose cells are all 0 was returned as a grid.
C18_AllZeroGridIsGrid ==
    /\ last.op \in Builders
    /\ IsGrid(last.ret)
    /\ GridSum(last.ret) = Num(0)
    /\ ~IsNoData(last.ret)

\* The sequences that hold the elements of a sequence in another order.
Reorderings(s) ==
    {[i \in 1..Len(s) |-> s[p[i]]] :
        p \in {q \in [1..Len(s) -> 1..Len(s)] : \A i, j \in 1..Len(s) : q[i] = q[j] => i = j}}

\* What a builder returns for a snapshot on the day of the build.
BuildFrom(op, chain, config) ==
    LET table == BuildDataframe(chain, DateOf(now))
    IN IF table.kind = "raise" THEN table
       ELSE IF op = "create_heatmap" THEN CreateHeatmapResult(table.val[1], config)
       ELSE Create3dSurfaceResult(table.val[1], config)

\* C19: building from any permutation of the snapshot's contract sequence
\* yields the same grid: same row keys, same column keys, same cells.
C19_OrderIndependent ==
    last.op \in Builders =>
        \A contracts \in Reorderings(last.chain_data.contracts) :
            BuildFrom(last.op, [last.chain_data EXCEPT !.contracts = contracts],
                      last.config) = last.ret

\* A percent grid of three different contracts, two of them in one column, that
\* the reversed sequence gives again.
C19_Witness ==
    /\ last.op = "create_heatmap"
    /\ IsPercent(last.config)
    /\ IsGrid(last.ret)
    /\ Len(GridOf(last.ret).y) >= 2
    /\ Len(last.chain_data.contracts) = 3
    /\ Cardinality(SeqToSet(last.chain_data.contracts)) = 3
    /\ Reverse(last.chain_data.contracts) \in Reorderings(last.chain_data.contracts)
    /\ BuildFrom(last.op, [last.chain_data EXCEPT
                              !.contracts = Reverse(last.chain_data.contracts)],
                 last.config) = last.ret

\* The snapshot of the end-to-end example on the day of the build: price 100
\* and three contracts (DTE 10, strike 100, OI 50), (DTE 10, strike 105,
\* OI 150), (DTE 20, strike 100, OI 25), in any order.
IsExample(chain) ==
    /\ chain.underlying_price = 100
    /\ Len(chain.contracts) = 3
    /\ {<<DteOf(c), c.strike_price, c.open_interest>> : c \in SeqToSet(chain.contracts)}
          = {<<10, 100, 50>>, <<10, 105, 150>>, <<20, 100, 25>>}

\* C20: for the example snapshot with y_axis=strike, value=oi_percent and
\* bounds that keep the three contracts, the grid has rows {100, 105}, columns
\* {10, 20} and cells (100,10)=25, (105,10)=75, (100,20)=100, (105,20)=0.
C20_EndToEndExample ==
    (/\ last.op \in Builders
     /\ IsExample(last.chain_data)
     /\ last.config.y_axis_mode = "strike"
     /\ last.config.value_mode = "oi_percent"
     /\ Len(Survivors(last.chain_data, last.config)) = 3) =>
        /\ IsGrid(last.ret)
        /\ GridOf(last.ret).y = <<Num(100), Num(105)>>
        /\ GridOf(last.ret).x = <<10, 20>>
        /\ GridOf(last.ret).z = <<<<Num(25), Num(100)>>, <<Num(75), Num(0)>>>>

\* The example was built as a heatmap.
C20_Witness ==
    /\ last.op = "create_heatmap"
    /\ IsExample(last.chain_data)
    /\ last.config.y_axis_mode = "strike"
    /\ last.config.value_mode = "oi_percent"
    /\ Len(Survivors(last.chain_data, last.config)) = 3
    /\ IsGrid(last.ret)
    /\ GridOf(last.ret).z[2][2] = Num(0)

(***************************************************************************)
(* Properties of the summary.                                              *)
(***************************************************************************)
ContractsOfType(chain, otype) ==
    SelectSeq(chain.contracts, LAMBDA c : c.option_type = otype)
OpenInterestOf(cs) == Sum([k \in 1..Len(cs) |-> cs[k].open_interest])
VolumeOf(cs) == Sum([k \in 1..Len(cs) |-> cs[k].volume])

\* The summary reports the counts, sums and ranges of the contracts of chain.
SummaryReports(summary, chain) ==
    LET cs == chain.contracts
        dtes == {DteOf(cs[k]) : k \in 1..Len(cs)}
        ms == {MoneynessOf(cs[k], chain) : k \in 1..Len(cs)}
    IN /\ summary.total_contracts = Len(cs)
       /\ summary.total_open_interest = OpenInterestOf(cs)
       /\ summary.total_volume = VolumeOf(cs)
       /\ summary.calls.count = Len(ContractsOfType(chain, "call"))
       /\ summary.puts.count = Len(ContractsOfType(chain, "put"))
       /\ summary.calls.open_interest = OpenInterestOf(ContractsOfType(chain, "call"))
       /\ summary.puts.open_interest = OpenInterestOf(ContractsOfType(chain, "put"))
       /\ summary.calls.volume = VolumeOf(ContractsOfType(chain, "call"))
       /\ summary.puts.volume = VolumeOf(ContractsOfType(chain, "put"))
       /\ summary.calls.count + summary.puts.count = summary.total_contracts
       /\ summary.calls.open_interest + summary.puts.open_interest
             = summary.total_open_interest
       /\ summary.calls.volume + summary.puts.volume = summary.total_volume
       /\ summary.expirations = Cardinality(Expirations(chain))
       /\ summary.strikes = Cardinality(Strikes(chain))
       /\ cs # <<>> =>
             /\ summary.dte_range.min \in dtes
             /\ \A d \in dtes : summary.dte_range.min <= d /\ d <= summary.dte_range.max
             /\ summary.dte_range.max \in dtes
             /\ summary.moneyness_range.min \in ms
             /\ summary.moneyness_range.max \in ms
             /\ \A m \in ms : /\ FracLe(summary.moneyness_range.min, m)
                              /\ FracLe(m, summary.moneyness_range.max)

\* C22: for every snapshot the summary is computed, leaves the snapshot as it
\* was, and reports the contract count, the exact sums of open interest and
\* volume, call and put breakdowns that add up to the totals, the numbers of
\* distinct expirations and strikes, and the least and greatest DTE and
\* moneyness.
C22_SummaryOfEverySnapshot ==
    last.op = "get_liquidity_summary" =>
        /\ last.ret.kind = "value"
        /\ heatmap[1].chain_data = last.chain_data
        /\ SummaryReports(last.ret.val[1], last.chain_data)

\* What the code does of C22: the same for a snapshot that holds a contract.
C22_WhenSnapshotHasContracts ==
    (last.op = "get_liquidity_summary" /\ last.chain_data.contracts # <<>>) =>
        /\ last.ret.kind = "value"
        /\ heatmap[1].chain_data = last.chain_data
        /\ SummaryReports(last.ret.val[1], last.chain_data)

\* The summary of a snapshot of zero contracts raised KeyError.
C22_ZeroContractsRaises ==
    /\ last.op = "get_liquidity_summary"
    /\ last.chain_data.contracts = <<>>
    /\ last.ret = Raise("KeyError")

\* The summary of the three contracts of the end-to-end example.
C22_ExampleSummary ==
    /\ last.op = "get_liquidity_summary"
    /\ DateOf(now) = 0
    /\ last.chain_data.contracts = ExampleContracts
    /\ last.ret.val[1].total_open_interest = 225
    /\ last.ret.val[1].calls.open_interest = 200
    /\ last.ret.val[1].puts.count = 1
    /\ last.ret.val[1].dte_range = [min |-> 10, max |-> 20]
    /\ last.ret.val[1].moneyness_range = [min |-> Num(1), max |-> Frac(21, 20)]

(***************************************************************************)
(* Properties of the filters and of the value column in every plot style.  *)
(* A plot style has one grid (panel 0), or, in the split view, the calls   *)
(* panel (column 1) and the puts panel (column 2).                         *)
(***************************************************************************)
PlotStyles == {"create_heatmap", "create_3d_surface", "create_split_heatmap"}
Panels(op) == IF op = "create_split_heatmap" THEN {1, 2} ELSE {0}
PanelType(col) == IF col = 1 THEN "call" ELSE "put"

\* The traces a figure holds for a panel.
TracesOf(ret, col) ==
    SelectSeq(ret.val[1].traces, LAMBDA t : col = 0 \/ t.col = col)

\* The contracts that pass every filter of the config and belong to the panel.
Passing(chain, config, col) ==
    SelectSeq(chain.contracts, LAMBDA c :
        /\ Survives(c, chain, config)
        /\ col # 0 => c.option_type = PanelType(col))

\* The trace is the grid of the contracts cs: their Y-values, their DTE values
\* and the sums of their value column.
GridIsOf(trace, cs, chain, config) ==
    /\ trace.y = FracSortAsc({YOf(cs[k], chain, config) : k \in 1..Len(cs)})
    /\ trace.x = IntSortAsc({DteOf(cs[k]) : k \in 1..Len(cs)})
    /\ \A a \in 1..Len(trace.y), b \in 1..Len(trace.x) :
          trace.z[a][b] = CellOf(cs, chain, config, trace.y[a], trace.x[b])

\* C23: in every plot style and every panel, the contracts that contribute to
\* the grid are exactly those that pass the option-type filter (when it is not
\* "both"), min_dte <= DTE <= max_dte and, with the moneyness axis only,
\* min_moneyness <= moneyness <= max_moneyness: the grid is the grid of these
\* contracts, and there is none when no contract passes.
C23_FiltersInEveryPlotStyle ==
    (last.op \in PlotStyles /\ last.ret.kind = "value") =>
        \A col \in Panels(last.op) :
           LET cs == Passing(last.chain_data, last.config, col)
               traces == TracesOf(last.ret, col)
           IN IF cs = <<>> THEN traces = <<>>
              ELSE /\ Len(traces) = 1
                   /\ GridIsOf(traces[1], cs, last.chain_data, last.config)

\* What the code does of C23: the same in the heatmap, in the 3D surface, and
\* in the split view when the option-type filter is "both".
C23_WhenSplitIsUnfiltered ==
    (/\ last.op \in PlotStyles
     /\ last.ret.kind = "value"
     /\ last.op = "create_split_heatmap" => last.config.option_type = "both") =>
        \A col \in Panels(last.op) :
           LET cs == Passing(last.chain_data, last.config, col)
               traces == TracesOf(last.ret, col)
           IN IF cs = <<>> THEN traces = <<>>
              ELSE /\ Len(traces) = 1
                   /\ GridIsOf(traces[1], cs, last.chain_data, last.config)

\* A split view asked for calls only whose puts panel holds a grid.
C23_SplitShowsFilteredType ==
    /\ last.op = "create_split_heatmap"
    /\ last.config.option_type = "call"
    /\ last.ret.kind = "value"
    /\ TracesOf(last.ret, 2) # <<>>
    /\ Passing(last.chain_data, last.config, 2) = <<>>

\* Contracts at both ends of the bounds are kept: a DTE equal to max_dte, and,
\* with the moneyness axis, a moneyness equal to min_moneyness.
C23_BoundsInclusive ==
    /\ last.op \in PlotStyles
    /\ last.ret.kind = "value"
    /\ last.config.y_axis_mode = "moneyness"
    /\ \E col \in Panels(last.op) :
          /\ TracesOf(last.ret, col) # <<>>
          /\ \E c \in SeqToSet(Passing(last.chain_data, last.config, col)) :
                /\ MoneynessOf(c, last.chain_data) = last.config.min_moneyness
                /\ DteOf(c) = last.config.max_dte

HasNoDeltaOrZero(c) == c.delta = None \/ c.delta = Some(0)

\* C24: with the delta axis, a contract without delta that passes the filters
\* is in the grid (of its panel) under Y-value 0: the cell of row 0 at its DTE
\* is the sum of the value column over the passing contracts of that DTE whose
\* delta is absent or 0; and in an absolute mode the cells add up to the metric
\* of all the contracts that pass.
C24_MissingDeltaIsRowZero ==
    (/\ last.op \in PlotStyles
     /\ last.ret.kind = "value"
     /\ last.config.y_axis_mode = "delta") =>
        \A col \in Panels(last.op) :
           LET cs == Passing(last.chain_data, last.config, col)
               traces == TracesOf(last.ret, col)
           IN cs # <<>> =>
                /\ Len(traces) = 1
                /\ \A k \in 1..Len(cs) : cs[k].delta = None =>
                      \E a \in 1..Len(traces[1].y), b \in 1..Len(traces[1].x) :
                         /\ traces[1].y[a] = Num(0)
                         /\ traces[1].x[b] = DteOf(cs[k])
                         /\ traces[1].z[a][b] =
                               FracSum([j \in 1..Len(cs) |->
                                  IF HasNoDeltaOrZero(cs[j]) /\ DteOf(cs[j]) = DteOf(cs[k])
                                  THEN ValueOf(cs[j], cs, last.config) ELSE Num(0)])
                /\ ~IsPercent(last.config) =>
                      FracSum([a \in 1..Len(traces[1].y) |->
                                  FracSum(traces[1].z[a])])
                         = Num(Sum([j \in 1..Len(cs) |-> MetricOf(cs[j], last.config)]))

\* A volume grid over delta whose row 0 holds, at one DTE, the volumes 0 and 2
\* of two contracts without delta and the volume 1 of a contract of delta 0.
C24_Witness ==
    /\ last.op = "create_heatmap"
    /\ last.config.y_axis_mode = "delta"
    /\ last.config.value_mode = "volume_absolute"
    /\ Len(Survivors(last.chain_data, last.config)) = 3
    /\ \A c \in SeqToSet(last.chain_data.contracts) : HasNoDeltaOrZero(c)
    /\ \E c \in SeqToSet(last.chain_data.contracts) : c.delta = None /\ c.volume = 2
    /\ \E c \in SeqToSet(last.chain_data.contracts) : c.delta = Some(0)
    /\ IsGrid(last.ret)
    /\ GridOf(last.ret).y = <<Num(0)>>
    /\ GridOf(last.ret).z = <<<<Num(3)>>>>

EntriesOf(f, t, sec) ==
    {p \in UNION {{<<d, n>> : n \in DOMAIN f[d]} : d \in DOMAIN f} :
        LET file == f[p[1]][p[2]].chain
        IN /\ file # None
           /\ file[1].ok
           /\ Upper(file[1].data[1].underlying_symbol) = Upper(t)
           /\ Second(FromIsoformat(file[1].data[1].fetch_timestamp)) = sec}

\* How many times a sequence holds a value.
Occurrences(s, v) == Cardinality({i \in 1..Len(s) : s[i] = v})

\* C27: entries are keyed by the upper-cased ticker and the second of the
\* capture timestamp.  After a save, the snapshots of that ticker (in any
\* letter case) and that second occupy one entry, which holds the snapshot just
\* saved, whatever it held before; list_cached reports the second once; and
\* load with the ticker in any letter case and any timestamp of that second
\* returns the snapshot just saved.
C27_KeyedByTickerAndSecond ==
    last.op = "save" =>
        LET sec == Second(last.chain.fetch_timestamp)
            same == {<<u, ts>> \in Tickers \X TimePoints :
                        /\ Upper(u) = Upper(last.chain.underlying_symbol)
                        /\ Second(ts) = sec}
        IN /\ Cardinality(EntriesOf(fs, last.chain.underlying_symbol, sec)) = 1
           /\ \A k \in same :
                 /\ GetCachePath(k[1], k[2]) = last.ret
                 /\ LoadResult(fs, k[1], k[2]) = Value(last.chain)
                 /\ Occurrences(ListCachedResult(fs, k[1]), T(sec, 0)) = 1

\* The save of "SPY" at a time with a sub-second part onto the entry that held
\* the snapshot of "spy" saved at the start of the same second: one entry, and
\* load of "spy" at the earlier time returns the later snapshot.
C27_Witness ==
    /\ last.op = "save"
    /\ last.chain.underlying_symbol = "SPY"
    /\ last.chain.fetch_timestamp = T(60, 1)
    /\ last.before # None
    /\ last.before[1].ok
    /\ last.before[1].data[1].underlying_symbol = "spy"
    /\ FromIsoformat(last.before[1].data[1].fetch_timestamp) = T(60, 0)
    /\ DOMAIN SubDirs(fs, "SPY") = {Strftime(T(60, 0))}
    /\ LoadResult(fs, "spy", T(60, 0)) = Value(last.chain)
    /\ ListCachedResult(fs, "spy") = <<T(60, 0)>>

(***************************************************************************)
(* Properties of the filters of fetch_cached_or_live.                      *)
(***************************************************************************)
\* fetch_cached_or_live returned a cached entry.
ReturnedCached(op) ==
    op.op = "fetch_cached_or_live" /\ ~op.live /\ op.ret.kind = "value"

\* What the call recorded in op returns, made in the same state with the
\* filters fetch_kwargs instead.
WithFilters(f, clock, auto, op, fetch_kwargs) ==
    LET option_symbols == ListedFor(op.symbol, fetch_kwargs, op.quote, clock,
                                    Len(op.listing))
    IN FetchCachedOrLiveResult(f, clock, auto, op.symbol, op.max_age_minutes,
                               fetch_kwargs, op.quote, option_symbols,
                               Venue(option_symbols), op.failed)

\* C26: when fetch_cached_or_live returns a cached entry, it is the entry
\* load_latest gave, as stored, its stored timestamp is the one whose age is
\* below the threshold, no request goes to the brokerage, the directory is left
\* as it was, and the call returns the same with any other filters.
C26_CachedEntryIgnoresFilters ==
    [][(writes' # writes /\ ReturnedCached(last')) =>
          /\ last'.ret = LoadLatestResult(fs, last'.symbol)
          /\ last'.ret = LoadResult(fs, last'.symbol, last'.ret.val[1].fetch_timestamp)
          /\ now - last'.ret.val[1].fetch_timestamp < Threshold(last'.max_age_minutes)
          /\ last'.request = None
          /\ last'.requests = <<>>
          /\ fs' = fs
          /\ \A fetch_kwargs \in SampleFetchKwargs :
                WithFilters(fs, now, auto_cache, last', fetch_kwargs).ret = last'.ret]_vars

\* A call for expirations from day 15 on returned the cached entry, which
\* holds the call that expires on day 10, outside the bounds, and lacks the
\* put of day 20 the brokerage lists within them.
C26_Witness ==
    /\ ReturnedCached(last)
    /\ now - last.ret.val[1].fetch_timestamp < Threshold(last.max_age_minutes)
    /\ last.fetch_kwargs.min_dte = 15
    /\ \E c \in SeqToSet(last.ret.val[1].contracts) :
          DateOf(c.expiration_date) - DateOf(now) < last.fetch_kwargs.min_dte
    /\ \E occ \in SeqToSet(ListedFor(last.symbol, last.fetch_kwargs, last.quote, now,
                                     Len(last.listing))) :
          /\ ParseSnapshot(occ, Upper(last.symbol), SnapshotOf(occ)) # None
          /\ \A c \in SeqToSet(last.ret.val[1].contracts) : c.symbol # occ

(***************************************************************************)
(* Properties of the command: how a run of main ends.                      *)
(***************************************************************************)
ExitedWith(code) == last.ret.kind = "value" /\ last.ret.val[1] = code

\* The fetch of the run gave a snapshot (the constructor and the fetch both
\* returned).
FetchSucceeded == last.fetched # None /\ last.fetched[1].kind = "value"

\* C21: every run of the command ends with an exit code: 0 when fetching, grid
\* building and export all succeed, whatever the y-axis mode, the value mode
\* and the plot style, and 1 with a message on the diagnostic stream when the
\* fetch or the validation of the credentials fails; no run ends with an
\* exception leaving main.
C21_EveryRunEndsWithExitCode ==
    last.op = "main" =>
        /\ ExitedWith(0) \/ ExitedWith(1)
        /\ ~FetchSucceeded => ExitedWith(1) /\ last.stderr # <<>>
        /\ (FetchSucceeded /\ last.export_ok) => ExitedWith(0)

\* C21: what the runs do instead.  A run whose constructor or fetch raises
\* exits with 1 and a message on the diagnostic stream; every run whose fetch
\* gives a snapshot ends with an exception leaving main, and none exits with 0.
C21_OnlyFailedFetchesExit ==
    last.op = "main" =>
        /\ ~FetchSucceeded => ExitedWith(1) /\ last.stderr # <<>>
        /\ FetchSucceeded => last.ret.kind = "raise" /\ last.stderr = <<>>
        /\ FetchSucceeded =>
              last.ret.val[1] = (IF last.args.summary /\ last.fetched[1].val[1].contracts = <<>>
                                 THEN "KeyError" ELSE "AttributeError")

\* C21: a run with the default arguments, credentials, a quote, two listed
\* contracts and a working export ends with AttributeError.
C21_DefaultRunRaises ==
    /\ last.op = "main"
    /\ last.args = MainArgs("spy", "strike", "oi_absolute", "both", "heatmap", FALSE, FALSE, FALSE)
    /\ last.environ.ALPACA_API_KEY # None /\ last.quote = GoodQuote /\ last.export_ok
    /\ FetchSucceeded /\ Len(last.fetched[1].val[1].contracts) = 2
    /\ last.ret.kind = "raise" /\ last.ret.val[1] = "AttributeError"

\* C21: a run without credentials exits with 1 and a message.
C21_NoCredentialsExitsOne ==
    /\ last.op = "main" /\ last.environ.ALPACA_API_KEY = None
    /\ ExitedWith(1) /\ last.stderr = <<"Error: ">>

====
